---------------------------- MODULE Spec2Model ----------------------------
(***************************************************************************)
(* Model of the Document Structuring Engine, src/src/content_parser.py.    *)
(*                                                                         *)
(* A Python str is a sequence of one-character strings, a document is a    *)
(* sequence of such lines.  Indices i, j, current_line are 0-based as in   *)
(* the code; At(ls, i) reads ls[i].  The alphabet has no quote character,  *)
(* so csv quoting never comes into play.  A carriage return occurs only in *)
(* the text handed to _parse_csv_table directly: parse_document reads the  *)
(* file in text mode, which turns every line ending into '\n'.             *)
(***************************************************************************)
EXTENDS Naturals, Sequences, FiniteSets, TLC

NL == "\n"

(***************************************************************************)
(* str helpers                                                             *)
(***************************************************************************)
CR == "\r"

Whitespace == {" ", "\t", NL, CR}

IsSpace(c) == c \in Whitespace

Digits == {"0", "1", "2", "3", "4", "5", "6", "7", "8", "9"}

IsDigit(c) == c \in Digits

UpperLetters ==
  <<"A", "B", "C", "D", "E", "F", "G", "H", "I", "J", "K", "L", "M",
    "N", "O", "P", "Q", "R", "S", "T", "U", "V", "W", "X", "Y", "Z">>

LowerLetters ==
  <<"a", "b", "c", "d", "e", "f", "g", "h", "i", "j", "k", "l", "m",
    "n", "o", "p", "q", "r", "s", "t", "u", "v", "w", "x", "y", "z">>

IsUpper(c) == \E k \in DOMAIN UpperLetters : UpperLetters[k] = c

IsLetter(c) == IsUpper(c) \/ \E k \in DOMAIN LowerLetters : LowerLetters[k] = c

\* \w of the re module
IsWord(c) == IsLetter(c) \/ IsDigit(c) \/ c = "_"

LowerChar(c) ==
  IF IsUpper(c)
  THEN LowerLetters[CHOOSE k \in DOMAIN UpperLetters : UpperLetters[k] = c]
  ELSE c

\* str.lower()
Lower(s) == [k \in 1..Len(s) |-> LowerChar(s[k])]

AllSpace(s) == \A k \in 1..Len(s) : IsSpace(s[k])

\* s[a:b] of Python, 0-based, end excluded
Slice(s, a, b) == SubSeq(s, a + 1, b)

\* str.startswith
StartsWith(s, p) == Len(s) >= Len(p) /\ SubSeq(s, 1, Len(p)) = p

\* str.endswith
EndsWith(s, p) == Len(s) >= Len(p) /\ SubSeq(s, Len(s) - Len(p) + 1, Len(s)) = p

\* p in s
Contains(s, p) ==
  \E k \in 0..Len(s) : k + Len(p) <= Len(s) /\ SubSeq(s, k + 1, k + Len(p)) = p

\* number of leading / trailing whitespace characters
LeadSpace(s) ==
  IF AllSpace(s) THEN Len(s)
  ELSE (CHOOSE k \in 1..Len(s) : ~IsSpace(s[k]) /\ AllSpace(SubSeq(s, 1, k - 1))) - 1

TrailSpace(s) ==
  IF AllSpace(s) THEN Len(s)
  ELSE Len(s) - (CHOOSE k \in 1..Len(s) :
                    ~IsSpace(s[k]) /\ AllSpace(SubSeq(s, k + 1, Len(s))))

\* str.lstrip(), str.rstrip(), str.strip()
LStrip(s) == SubSeq(s, LeadSpace(s) + 1, Len(s))

RStrip(s) == SubSeq(s, 1, Len(s) - TrailSpace(s))

Strip(s) == IF AllSpace(s) THEN <<>> ELSE RStrip(LStrip(s))

\* sep.join(parts) for a one-character separator
RECURSIVE Join(_, _)
Join(parts, sep) ==
  IF parts = <<>> THEN <<>>
  ELSE IF Len(parts) = 1 THEN parts[1]
  ELSE parts[1] \o <<sep>> \o Join(Tail(parts), sep)

\* s.split(sep) for a one-character separator: always at least one part
RECURSIVE Split(_, _)
Split(s, sep) ==
  IF \A k \in 1..Len(s) : s[k] # sep THEN <<s>>
  ELSE LET k == CHOOSE k \in 1..Len(s) :
                  s[k] = sep /\ \A m \in 1..(k - 1) : s[m] # sep
       IN  <<SubSeq(s, 1, k - 1)>> \o Split(SubSeq(s, k + 1, Len(s)), sep)

\* s.replace(p, '') for a non-empty p: every occurrence, left to right
RECURSIVE Remove(_, _)
Remove(s, p) ==
  IF ~Contains(s, p) THEN s
  ELSE LET k == CHOOSE k \in 0..Len(s) :
                  /\ k + Len(p) <= Len(s)
                  /\ SubSeq(s, k + 1, k + Len(p)) = p
                  /\ \A m \in 0..(k - 1) : SubSeq(s, m + 1, m + Len(p)) # p
       IN  SubSeq(s, 1, k) \o Remove(SubSeq(s, k + Len(p) + 1, Len(s)), p)

\* lines[i] of the code (0-based)
At(ls, i) == ls[i + 1]

(***************************************************************************)
(* Literals of the code                                                    *)
(***************************************************************************)
sNotice == <<"n", "o", "t", "i", "c", "e">>
sDisclaimer == <<"d", "i", "s", "c", "l", "a", "i", "m", "e", "r">>
sCsv == <<"c", "s", "v">>
sFaq == <<"f", "a", "q">>
sFrequentlyAsked ==
  <<"f", "r", "e", "q", "u", "e", "n", "t", "l", "y", " ", "a", "s", "k", "e", "d">>
sVerdict == <<"v", "e", "r", "d", "i", "c", "t">>
sConclusion == <<"c", "o", "n", "c", "l", "u", "s", "i", "o", "n">>
sContent == <<"C", "o", "n", "t", "e", "n", "t">>

(***************************************************************************)
(* _detect_section_type                                                    *)
(***************************************************************************)
\* re.match(r'^\d+\.\s+\w+', heading)
NumberedHeading(heading) ==
  \E d \in 1..Len(heading) :
    /\ \A k \in 1..d : IsDigit(heading[k])
    /\ d + 3 <= Len(heading)
    /\ heading[d + 1] = "."
    /\ \E w \in 1..(Len(heading) - d - 2) :
         /\ \A k \in (d + 2)..(d + 1 + w) : IsSpace(heading[k])
         /\ IsWord(heading[d + 2 + w])

\* The same function with the FAQ test and the numbered-heading test swapped.
detect_section_type_numbered_first(heading, content) ==
  LET heading_lower == Lower(heading)
  IN  IF Contains(heading_lower, sNotice) \/ Contains(heading_lower, sDisclaimer)
      THEN "disclaimer"
      ELSE IF StartsWith(Strip(content), sCsv)
      THEN "comparison_table"
      ELSE IF NumberedHeading(heading)
      THEN "platform_review"
      ELSE IF Contains(heading_lower, sFaq) \/ Contains(heading_lower, sFrequentlyAsked)
      THEN "faq_section"
      ELSE IF Contains(heading_lower, sVerdict) \/ Contains(heading_lower, sConclusion)
      THEN "verdict"
      ELSE "standard"

detect_section_type(heading, content) ==
  LET heading_lower == Lower(heading)
  IN  IF Contains(heading_lower, sNotice) \/ Contains(heading_lower, sDisclaimer)
      THEN "disclaimer"
      ELSE IF StartsWith(Strip(content), sCsv)
      THEN "comparison_table"
      ELSE IF Contains(heading_lower, sFaq) \/ Contains(heading_lower, sFrequentlyAsked)
      THEN "faq_section"
      ELSE IF NumberedHeading(heading)
      THEN "platform_review"
      ELSE IF Contains(heading_lower, sVerdict) \/ Contains(heading_lower, sConclusion)
      THEN "verdict"
      ELSE "standard"

(***************************************************************************)
(* _parse_csv_table                                                        *)
(*                                                                         *)
(* A Python dict is a sequence of [key, value] entries in insertion order. *)
(* Keys and values are tagged: a str, None, or a list of str.              *)
(***************************************************************************)
StrVal(s) == [kind |-> "str", s |-> s, items |-> <<>>]

NoneVal == [kind |-> "None", s |-> <<>>, items |-> <<>>]

ListVal(l) == [kind |-> "list", s |-> <<>>, items |-> l]

HasKey(d, k) == \E n \in 1..Len(d) : d[n].key = k

\* A dict whose existing key keeps its first value.
DictSetKeepsFirst(d, k, v) ==
  IF HasKey(d, k) THEN d ELSE Append(d, [key |-> k, value |-> v])

\* d[k] = v: an existing key keeps its place
DictSet(d, k, v) ==
  IF HasKey(d, k)
  THEN [n \in 1..Len(d) |-> IF d[n].key = k THEN [key |-> k, value |-> v] ELSE d[n]]
  ELSE Append(d, [key |-> k, value |-> v])

\* ^ under re.MULTILINE, at 0-based position p
LineStart(s, p) == p = 0 \/ s[p] = NL

\* length of the whitespace run of s that starts at 0-based position p
RECURSIVE SpaceRun(_, _)
SpaceRun(s, p) ==
  IF p < Len(s) /\ IsSpace(s[p + 1]) THEN 1 + SpaceRun(s, p + 1) ELSE 0

\* Where r'^csv\s*\n' matches at 0-based position p, the end of the match (the
\* greedy \s* gives back down to the last newline of the run); 0 when it does not.
CsvMarkerEnd(s, p) ==
  LET run == SpaceRun(s, p + 3)
      nls == {k \in 1..run : s[p + 3 + k] = NL}
  IN  IF /\ LineStart(s, p)
         /\ StartsWith(SubSeq(s, p + 1, Len(s)), sCsv)
         /\ nls # {}
      THEN p + 3 + (CHOOSE k \in nls : \A m \in nls : m <= k)
      ELSE 0

\* re.sub(r'^csv\s*\n', '', s, flags=re.MULTILINE), scanning from position p
RECURSIVE SubCsvMarker(_, _)
SubCsvMarker(s, p) ==
  IF p >= Len(s) THEN <<>>
  ELSE IF CsvMarkerEnd(s, p) > 0 THEN SubCsvMarker(s, CsvMarkerEnd(s, p))
  ELSE <<s[p + 1]>> \o SubCsvMarker(s, p + 1)

\* the lines StringIO(text) iterates over, without their line ends
StringIOLines(text) ==
  LET parts == Split(text, NL)
  IN  IF parts[Len(parts)] = <<>> THEN SubSeq(parts, 1, Len(parts) - 1) ELSE parts

\* the part of a line before its first carriage return
BeforeCR(line) ==
  LET at == {k \in 1..Len(line) : line[k] = CR}
  IN  IF at = {} THEN line
      ELSE SubSeq(line, 1, (CHOOSE k \in at : \A m \in at : k <= m) - 1)

\* csv.reader on one line: after a carriage return outside quotes the reader
\* accepts nothing but line ends, any other character is a csv.Error
\* ('new-line character seen in unquoted field')
LineRaises(line) ==
  \E k \in 1..Len(line) : line[k] = CR /\ \E j \in (k + 1)..Len(line) : line[j] # CR

\* one row of csv.reader (excel dialect, no quote characters in the alphabet)
Fields(line) ==
  IF BeforeCR(line) = <<>> THEN <<>> ELSE Split(BeforeCR(line), ",")

\* dict(zip(fieldnames, row))
RECURSIVE ZipDict(_, _, _)
ZipDict(d, fieldnames, row) ==
  IF fieldnames = <<>> \/ row = <<>> THEN d
  ELSE ZipDict(DictSet(d, StrVal(fieldnames[1]), StrVal(row[1])),
               Tail(fieldnames), Tail(row))

\* for key in fieldnames[lr:]: d[key] = restval
RECURSIVE FillRest(_, _)
FillRest(d, keys) ==
  IF keys = <<>> THEN d
  ELSE FillRest(DictSet(d, StrVal(keys[1]), NoneVal), Tail(keys))

\* csv.DictReader.__next__ on a non-blank row (restkey = restval = None)
DictRow(fieldnames, row) ==
  LET d  == ZipDict(<<>>, fieldnames, row)
      lf == Len(fieldnames)
      lr == Len(row)
  IN  IF lf < lr THEN DictSet(d, NoneVal, ListVal(SubSeq(row, lf + 1, lr)))
      ELSE IF lf > lr THEN FillRest(d, SubSeq(fieldnames, lr + 1, lf))
      ELSE d

\* list(csv.DictReader(StringIO(text))): the first row is fieldnames, blank
\* rows after it are skipped
DictReader(text) ==
  LET ls   == StringIOLines(text)
      rows == [k \in 1..Len(ls) |-> Fields(ls[k])]
      NonBlank(r) == r # <<>>
      data == SelectSeq(SubSeq(rows, 2, Len(rows)), NonBlank)
  IN  [k \in 1..Len(data) |-> DictRow(rows[1], data[k])]

\* list(csv_reader) reads every line: it raises when one of them does
DictReaderRaises(text) ==
  \E k \in 1..Len(StringIOLines(text)) : LineRaises(StringIOLines(text)[k])

parse_csv_table(content) ==
  LET csv_content == Strip(SubCsvMarker(content, 0))
  IN  DictReader(csv_content)

\* whether _parse_csv_table ends in the csv.Error of its reader
parse_csv_table_raises(content) ==
  DictReaderRaises(Strip(SubCsvMarker(content, 0)))

(***************************************************************************)
(* _parse_platform_review                                                  *)
(***************************************************************************)
\* the one character U+2022 (the bullet glyph), written as an ASCII token
Bullet == "u2022"

sPros == <<"P", "r", "o", "s", ":">>
sCons == <<"C", "o", "n", "s", ":">>
sCompatibility ==
  <<"C", "o", "m", "p", "a", "t", "i", "b", "i", "l", "i", "t", "y", ":">>
sCompliance == <<"C", "o", "m", "p", "l", "i", "a", "n", "c", "e", ":">>
sVerdictMarker == <<"V", "e", "r", "d", "i", "c", "t", ":">>

\* number of leading digits
RECURSIVE DigitRun(_, _)
DigitRun(s, p) ==
  IF p < Len(s) /\ IsDigit(s[p + 1]) THEN 1 + DigitRun(s, p + 1) ELSE 0

\* r'\s*-\s*(.+)$' matched at 0-based position p of heading: the start of
\* group 2 (the greedy \s* leaves it one character at least), 0 when no match
TaglineStart(heading, p) ==
  LET dash == p + SpaceRun(heading, p)
      left == Len(heading) - (dash + 1)
      run  == SpaceRun(heading, dash + 1)
  IN  IF dash < Len(heading) /\ heading[dash + 1] = "-" /\ left >= 1
      THEN dash + 1 + (IF run < left THEN run ELSE left - 1)
      ELSE 0

\* re.match(r'^\d+\.\s+(.+?)\s*-\s*(.+)$', heading) for a heading of one line:
\* \s+ is greedy (the longest run that lets the rest match), group 1 lazy
ReviewHeadingMatch(heading) ==
  LET d    == DigitRun(heading, 0)
      wmax == SpaceRun(heading, d + 1)
      Ok(w, g) == d + 1 + w + g <= Len(heading) /\ TaglineStart(heading, d + 1 + w + g) > 0
      ws   == {w \in 1..wmax : \E g \in 1..Len(heading) : Ok(w, g)}
  IN  IF d >= 1 /\ d < Len(heading) /\ heading[d + 1] = "." /\ ws # {}
      THEN LET w == CHOOSE w \in ws : \A v \in ws : v <= w
               g == CHOOSE g \in 1..Len(heading) :
                      Ok(w, g) /\ \A f \in 1..(g - 1) : ~Ok(w, f)
               a == d + 1 + w
           IN  [matched |-> TRUE,
                group1  |-> Slice(heading, a, a + g),
                group2  |-> Slice(heading, TaglineStart(heading, a + g), Len(heading))]
      ELSE [matched |-> FALSE, group1 |-> <<>>, group2 |-> <<>>]

\* A bullet read before any marker counted as a pro.
ReviewLineBulletsDefaultToPros(st, line) ==
  LET line_stripped == Strip(line)
  IN  IF StartsWith(line_stripped, sPros) THEN [st EXCEPT !.current_section = "pros"]
      ELSE IF StartsWith(line_stripped, sCons) THEN [st EXCEPT !.current_section = "cons"]
      ELSE IF Contains(line_stripped, sCompatibility) \/ Contains(line_stripped, sCompliance)
      THEN [st EXCEPT !.current_section = "details"]
      ELSE IF StartsWith(line_stripped, sVerdictMarker)
      THEN [st EXCEPT !.current_section = "verdict"]
      ELSE IF StartsWith(line_stripped, <<Bullet>>)
      THEN LET item == Strip(Remove(line_stripped, <<Bullet>>))
           IN  IF st.current_section \in {"pros", "intro"}
               THEN [st EXCEPT !.pros = Append(@, item)]
               ELSE IF st.current_section = "cons" THEN [st EXCEPT !.cons = Append(@, item)]
               ELSE st
      ELSE IF st.current_section = "intro" /\ line_stripped # <<>>
      THEN [st EXCEPT !.intro_lines = Append(@, line_stripped)]
      ELSE IF st.current_section = "verdict" /\ line_stripped # <<>>
      THEN [st EXCEPT !.verdict = @ \o line_stripped \o <<" ">>]
      ELSE IF st.current_section = "details" /\ Contains(line_stripped, <<":">>)
      THEN LET parts == Split(line_stripped, ":")
               key   == parts[1]
               value == Join(Tail(parts), ":")
           IN  [st EXCEPT !.details = DictSet(@, Strip(key), Strip(value))]
      ELSE st

\* A 'Verdict:' marker line whose text after the marker starts the verdict.
ReviewLineVerdictKeepsText(st, line) ==
  LET line_stripped == Strip(line)
  IN  IF StartsWith(line_stripped, sPros) THEN [st EXCEPT !.current_section = "pros"]
      ELSE IF StartsWith(line_stripped, sCons) THEN [st EXCEPT !.current_section = "cons"]
      ELSE IF Contains(line_stripped, sCompatibility) \/ Contains(line_stripped, sCompliance)
      THEN [st EXCEPT !.current_section = "details"]
      ELSE IF StartsWith(line_stripped, sVerdictMarker)
      THEN [st EXCEPT !.current_section = "verdict",
                      !.verdict = @ \o Strip(Remove(line_stripped, sVerdictMarker)) \o <<" ">>]
      ELSE IF StartsWith(line_stripped, <<Bullet>>)
      THEN LET item == Strip(Remove(line_stripped, <<Bullet>>))
           IN  IF st.current_section = "pros" THEN [st EXCEPT !.pros = Append(@, item)]
               ELSE IF st.current_section = "cons" THEN [st EXCEPT !.cons = Append(@, item)]
               ELSE st
      ELSE IF st.current_section = "intro" /\ line_stripped # <<>>
      THEN [st EXCEPT !.intro_lines = Append(@, line_stripped)]
      ELSE IF st.current_section = "verdict" /\ line_stripped # <<>>
      THEN [st EXCEPT !.verdict = @ \o line_stripped \o <<" ">>]
      ELSE IF st.current_section = "details" /\ Contains(line_stripped, <<":">>)
      THEN LET parts == Split(line_stripped, ":")
               key   == parts[1]
               value == Join(Tail(parts), ":")
           IN  [st EXCEPT !.details = DictSet(@, Strip(key), Strip(value))]
      ELSE st

\* one iteration of `for line in lines` (lines 194-218); verdict is the str
\* being built, intro_lines the list
ReviewLine(st, line) ==
  LET line_stripped == Strip(line)
  IN  IF StartsWith(line_stripped, sPros) THEN [st EXCEPT !.current_section = "pros"]
      ELSE IF StartsWith(line_stripped, sCons) THEN [st EXCEPT !.current_section = "cons"]
      ELSE IF Contains(line_stripped, sCompatibility) \/ Contains(line_stripped, sCompliance)
      THEN [st EXCEPT !.current_section = "details"]
      ELSE IF StartsWith(line_stripped, sVerdictMarker)
      THEN [st EXCEPT !.current_section = "verdict"]
      ELSE IF StartsWith(line_stripped, <<Bullet>>)
      THEN LET item == Strip(Remove(line_stripped, <<Bullet>>))
           IN  IF st.current_section = "pros" THEN [st EXCEPT !.pros = Append(@, item)]
               ELSE IF st.current_section = "cons" THEN [st EXCEPT !.cons = Append(@, item)]
               ELSE st
      ELSE IF st.current_section = "intro" /\ line_stripped # <<>>
      THEN [st EXCEPT !.intro_lines = Append(@, line_stripped)]
      ELSE IF st.current_section = "verdict" /\ line_stripped # <<>>
      THEN [st EXCEPT !.verdict = @ \o line_stripped \o <<" ">>]
      ELSE IF st.current_section = "details" /\ Contains(line_stripped, <<":">>)
      THEN LET parts == Split(line_stripped, ":")
               key   == parts[1]
               value == Join(Tail(parts), ":")
           IN  [st EXCEPT !.details = DictSet(@, Strip(key), Strip(value))]
      ELSE st

RECURSIVE ReviewWalk(_, _)
ReviewWalk(st, ls) ==
  IF ls = <<>> THEN st ELSE ReviewWalk(ReviewLine(st, ls[1]), Tail(ls))

parse_platform_review(heading, content) ==
  LET match == ReviewHeadingMatch(heading)
      st0   == [current_section |-> "intro", intro_lines |-> <<>>, pros |-> <<>>,
                cons |-> <<>>, details |-> <<>>, verdict |-> <<>>]
      st    == ReviewWalk(st0, Split(content, NL))
  IN  [platform_name |-> IF match.matched THEN Strip(match.group1) ELSE heading,
       tagline       |-> IF match.matched THEN Strip(match.group2) ELSE <<>>,
       intro         |-> Join(st.intro_lines, " "),
       pros          |-> st.pros,
       cons          |-> st.cons,
       details       |-> st.details,
       verdict       |-> Strip(st.verdict)]

\* str.split(sep, 1)
SplitOnce(s, sep) ==
  LET parts == Split(s, sep)
  IN  IF Len(parts) = 1 THEN parts ELSE <<parts[1], Join(Tail(parts), sep)>>

\* The walk starting in the pros state.
ReviewEnterFrameStartsInPros(heading, content) ==
  LET match == ReviewHeadingMatch(heading)
  IN  [platform_name |-> IF match.matched THEN Strip(match.group1) ELSE heading,
       tagline       |-> IF match.matched THEN Strip(match.group2) ELSE <<>>,
       lines         |-> Split(content, NL),
       n             |-> 0,
       st            |-> [current_section |-> "pros", intro_lines |-> <<>>,
                          pros |-> <<>>, cons |-> <<>>, details |-> <<>>,
                          verdict |-> <<>>]]

\* lines 171-192: review_data and the locals as the walk starts
ReviewEnterFrame(heading, content) ==
  LET match == ReviewHeadingMatch(heading)
  IN  [platform_name |-> IF match.matched THEN Strip(match.group1) ELSE heading,
       tagline       |-> IF match.matched THEN Strip(match.group2) ELSE <<>>,
       lines         |-> Split(content, NL),
       n             |-> 0,
       st            |-> [current_section |-> "intro", intro_lines |-> <<>>,
                          pros |-> <<>>, cons |-> <<>>, details |-> <<>>,
                          verdict |-> <<>>]]

\* Whether the unpacking `key, value = line_stripped.split(':', 1)` of line
\* 217 is reached with other than two parts (a ValueError)
ReviewLineRaises(st, line) ==
  LET line_stripped == Strip(line)
  IN  /\ ~StartsWith(line_stripped, sPros)
      /\ ~StartsWith(line_stripped, sCons)
      /\ ~(Contains(line_stripped, sCompatibility) \/ Contains(line_stripped, sCompliance))
      /\ ~StartsWith(line_stripped, sVerdictMarker)
      /\ ~StartsWith(line_stripped, <<Bullet>>)
      /\ ~(st.current_section = "intro" /\ line_stripped # <<>>)
      /\ ~(st.current_section = "verdict" /\ line_stripped # <<>>)
      /\ st.current_section = "details" /\ Contains(line_stripped, <<":">>)
      /\ Len(SplitOnce(line_stripped, ":")) # 2

\* The verdict returned as it was built, with the space after its last line.
ReviewResultKeepsTrailingSpace(fr) ==
  [platform_name |-> fr.platform_name,
   tagline       |-> fr.tagline,
   intro         |-> Join(fr.st.intro_lines, " "),
   pros          |-> fr.st.pros,
   cons          |-> fr.st.cons,
   details       |-> fr.st.details,
   verdict       |-> fr.st.verdict]

\* lines 220-223: the review_data returned after the walk
ReviewResult(fr) ==
  [platform_name |-> fr.platform_name,
   tagline       |-> fr.tagline,
   intro         |-> Join(fr.st.intro_lines, " "),
   pros          |-> fr.st.pros,
   cons          |-> fr.st.cons,
   details       |-> fr.st.details,
   verdict       |-> Strip(fr.st.verdict)]

(***************************************************************************)
(* _parse_disclaimer                                                       *)
(***************************************************************************)
\* str.rstrip(':')
RECURSIVE RStripColon(_)
RStripColon(s) ==
  IF s # <<>> /\ s[Len(s)] = ":" THEN RStripColon(SubSeq(s, 1, Len(s) - 1)) ELSE s

\* `if current_section['title'] or current_section['content']: append`
DisclaimerFlush(out, current_section) ==
  IF current_section.title # <<>> \/ current_section.content # <<>>
  THEN Append(out, current_section)
  ELSE out

\* A title line appending the open group whatever it holds.
DisclaimerLineAlwaysAppends(st, line) ==
  LET line_stripped == Strip(line)
  IN  IF EndsWith(line_stripped, <<":">>) /\ ~StartsWith(line_stripped, <<Bullet>>)
      THEN [sections        |-> Append(st.sections, st.current_section),
            current_section |-> [title |-> RStripColon(line_stripped), content |-> <<>>]]
      ELSE IF line_stripped # <<>>
      THEN [st EXCEPT !.current_section.content = Append(@, line_stripped)]
      ELSE st

\* one iteration of `for line in lines` (lines 234-251)
DisclaimerLine(st, line) ==
  LET line_stripped == Strip(line)
  IN  IF EndsWith(line_stripped, <<":">>) /\ ~StartsWith(line_stripped, <<Bullet>>)
      THEN [sections        |-> DisclaimerFlush(st.sections, st.current_section),
            current_section |-> [title |-> RStripColon(line_stripped), content |-> <<>>]]
      ELSE IF line_stripped # <<>>
      THEN [st EXCEPT !.current_section.content = Append(@, line_stripped)]
      ELSE st

RECURSIVE DisclaimerWalk(_, _)
DisclaimerWalk(st, ls) ==
  IF ls = <<>> THEN st ELSE DisclaimerWalk(DisclaimerLine(st, ls[1]), Tail(ls))

parse_disclaimer(content) ==
  LET st0 == [sections |-> <<>>, current_section |-> [title |-> <<>>, content |-> <<>>]]
      st  == DisclaimerWalk(st0, Split(content, NL))
  IN  [sections |-> DisclaimerFlush(st.sections, st.current_section)]

\* lines 227-232: disclaimer_data and the locals as the walk starts
DisclaimerEnterFrame(content) ==
  [lines |-> Split(content, NL),
   n     |-> 0,
   st    |-> [sections |-> <<>>, current_section |-> [title |-> <<>>, content |-> <<>>]]]

\* The groups returned without the one open when the content ends.
DisclaimerResultDropsOpenGroup(fr) ==
  [sections |-> fr.st.sections]

\* lines 253-260: the last group is added and disclaimer_data returned
DisclaimerResult(fr) ==
  [sections |-> DisclaimerFlush(fr.st.sections, fr.st.current_section)]

(***************************************************************************)
(* ContentParser: the state of one parser instance and of parse()          *)
(***************************************************************************)
VARIABLES
  lines,          \* self.lines
  current_line,   \* self.current_line
  pc,             \* where parse() stands
  i,              \* the loop index of the running scan
  metadata,       \* the dict _parse_metadata fills
  sections,       \* the list _parse_content_sections fills
  heading_text,   \* locals of the section being collected
  heading_level,
  content_lines,
  spans,          \* history: per emitted or open section, the index of its
                  \* marker line and the indices appended to content_lines
  outcome,        \* "none" while running, then "document" (or "error")
  arg,            \* argument and result of a sub-parser called on its own
  ret,
  frame,          \* the locals of a sub-parser walking its lines
  other,          \* a second ContentParser instance, when there is one
  returned        \* history: the documents parse() has returned so far

vars == <<lines, current_line, pc, i, metadata, sections, heading_text,
          heading_level, content_lines, spans, outcome, arg, ret, frame, other,
          returned>>

parserVars == <<lines, current_line, i, metadata, sections, heading_text,
                heading_level, content_lines, spans, outcome>>

sTargetKeyword == <<"T", "a", "r", "g", "e", "t", " ", "K", "e", "y", "w", "o", "r", "d", ":">>
sTargetGeo == <<"T", "a", "r", "g", "e", "t", " ", "G", "e", "o", ":">>
sUrlSlug == <<"U", "R", "L", " ", "S", "l", "u", "g", ":">>
sMetaTitle == <<"M", "e", "t", "a", " ", "T", "i", "t", "l", "e">>
sMetaDescription == <<"M", "e", "t", "a", " ", "D", "e", "s", "c", "r", "i", "p", "t", "i", "o", "n">>
sNotesForMJ == <<"N", "o", "t", "e", "s", " ", "f", "o", "r", " ", "M", "J", ":">>
sFeaturedImage == <<"F", "e", "a", "t", "u", "r", "e", "d", " ", "i", "m", "a", "g", "e", ":">>
sSeoTitle == <<"S", "E", "O", " ", "T", "i", "t", "l", "e", ":">>
sAltTag == <<"A", "L", "T", " ", "T", "a", "g", ":">>

\* lines 28-36
EmptyMetadata ==
  [target_keyword |-> <<>>, target_geo |-> <<>>, url_slug |-> <<>>,
   meta_title |-> <<>>, meta_description |-> <<>>, notes |-> <<>>,
   featured_image |-> <<>>]

\* lines[i + 1].strip() if i + 1 < len(lines) else ''
NextLineStripped(ls, n) == IF n + 1 < Len(ls) THEN Strip(At(ls, n + 1)) ELSE <<>>

\* lines 51-55: the lines after the label up to one starting with 'Content'
RECURSIVE NotesLines(_, _)
NotesLines(ls, j) ==
  IF j < Len(ls) /\ ~StartsWith(At(ls, j), sContent)
  THEN <<At(ls, j)>> \o NotesLines(ls, j + 1)
  ELSE <<>>

\* lines 59-63
RECURSIVE ImgLines(_, _)
ImgLines(ls, j) ==
  IF j < Len(ls) /\ Strip(At(ls, j)) # <<>> /\ ~StartsWith(At(ls, j), sSeoTitle)
  THEN <<Strip(At(ls, j))>> \o ImgLines(ls, j + 1)
  ELSE <<>>

\* lines 67-71: for img_line in self.lines[i:i+10]
RECURSIVE ImgTags(_, _)
ImgTags(fi, window) ==
  IF window = <<>> THEN fi
  ELSE LET img_line == window[1]
           fi1 == IF StartsWith(img_line, sSeoTitle)
                  THEN DictSet(fi, "seo_title", Strip(Remove(img_line, sSeoTitle)))
                  ELSE IF StartsWith(img_line, sAltTag)
                  THEN DictSet(fi, "alt_tag", Strip(Remove(img_line, sAltTag)))
                  ELSE fi
       IN  ImgTags(fi1, Tail(window))

\* The lookahead window of lines 67-71
ImgWindow == 10

\* line 72: the test that ends the metadata scan
IsContentLine(line) == Strip(line) = sContent

\* The body of the for loop of _parse_metadata for a line that does not end
\* the scan (lines 39-71): the metadata after it
MetadataLine(md, ls, n) ==
  LET line == At(ls, n)
  IN  IF StartsWith(line, sTargetKeyword)
      THEN [md EXCEPT !.target_keyword = Strip(Remove(line, sTargetKeyword))]
      ELSE IF StartsWith(line, sTargetGeo)
      THEN [md EXCEPT !.target_geo = Strip(Remove(line, sTargetGeo))]
      ELSE IF Strip(line) = sUrlSlug /\ n + 1 < Len(ls)
      THEN [md EXCEPT !.url_slug = Strip(At(ls, n + 1))]
      ELSE IF StartsWith(line, sMetaTitle)
      THEN [md EXCEPT !.meta_title = NextLineStripped(ls, n)]
      ELSE IF StartsWith(line, sMetaDescription)
      THEN [md EXCEPT !.meta_description = NextLineStripped(ls, n)]
      ELSE IF StartsWith(line, sNotesForMJ)
      THEN [md EXCEPT !.notes = Strip(Join(NotesLines(ls, n + 1), NL))]
      ELSE IF StartsWith(line, sFeaturedImage)
      THEN LET img_lines == ImgLines(ls, n + 1)
           IN  IF img_lines # <<>>
               THEN [md EXCEPT !.featured_image =
                       ImgTags(DictSet(@, "description", img_lines[1]),
                               Slice(ls, n, IF n + ImgWindow < Len(ls)
                                            THEN n + ImgWindow ELSE Len(ls)))]
               ELSE md
      ELSE md

\* The next-line branches reading self.lines[i + 1] without a bounds test.
MetadataReadsNextUnguarded(ls, n) ==
  LET line == At(ls, n)
  IN  IF StartsWith(line, sTargetKeyword) \/ StartsWith(line, sTargetGeo) THEN FALSE
      ELSE IF Strip(line) = sUrlSlug /\ n + 1 < Len(ls) THEN TRUE
      ELSE StartsWith(line, sMetaTitle) \/ StartsWith(line, sMetaDescription)

\* Whether the branch taken for line n evaluates self.lines[i + 1] (lines 44,
\* 46, 48): the conditional expressions test i + 1 < len(self.lines) first
MetadataReadsNext(ls, n) ==
  LET line == At(ls, n)
  IN  IF StartsWith(line, sTargetKeyword) \/ StartsWith(line, sTargetGeo) THEN FALSE
      ELSE IF Strip(line) = sUrlSlug /\ n + 1 < Len(ls) THEN TRUE
      ELSE (StartsWith(line, sMetaTitle) \/ StartsWith(line, sMetaDescription))
           /\ n + 1 < Len(ls)

\* an IndexError: self.lines[i + 1] evaluated past the last line
MetadataLineRaises(ls, n) == MetadataReadsNext(ls, n) /\ ~(n + 1 < Len(ls))

\* Whether the for loop reaches line 72 for this line: no earlier branch of
\* the elif chain takes it
ReachesContentTest(ls, n) ==
  LET line == At(ls, n)
  IN  /\ ~StartsWith(line, sTargetKeyword)
      /\ ~StartsWith(line, sTargetGeo)
      /\ ~(Strip(line) = sUrlSlug /\ n + 1 < Len(ls))
      /\ ~StartsWith(line, sMetaTitle)
      /\ ~StartsWith(line, sMetaDescription)
      /\ ~StartsWith(line, sNotesForMJ)
      /\ ~StartsWith(line, sFeaturedImage)

(***************************************************************************)
(* _parse_content_sections                                                 *)
(***************************************************************************)
LevelDigits == <<"1", "2", "3", "4", "5", "6">>

\* int(c) for a digit of [1-6]
LevelOf(c) == CHOOSE n \in DOMAIN LevelDigits : LevelDigits[n] = c

\* The match with group 1 taken greedily, trailing whitespace included.
HeadingMatchGreedy(line) ==
  LET n == Len(line)
  IN  IF /\ n >= 5
         /\ line[n - 3] = "(" /\ line[n - 2] = "h" /\ line[n] = ")"
         /\ \E k \in DOMAIN LevelDigits : LevelDigits[k] = line[n - 1]
      THEN [matched |-> TRUE, group1 |-> SubSeq(line, 1, n - 4), group2 |-> line[n - 1]]
      ELSE [matched |-> FALSE, group1 |-> <<>>, group2 |-> "0"]

\* re.match(r'^(.+?)\s*\(h([1-6])\)$', line) for a line without newline:
\* group 1 is lazy, the shortest non-empty prefix that only whitespace
\* separates from the final (hN)
HeadingMatch(line) ==
  LET n   == Len(line)
      pre == SubSeq(line, 1, n - 4)
  IN  IF /\ n >= 5
         /\ line[n - 3] = "(" /\ line[n - 2] = "h" /\ line[n] = ")"
         /\ \E k \in DOMAIN LevelDigits : LevelDigits[k] = line[n - 1]
      THEN LET g == CHOOSE g \in 1..Len(pre) :
                      /\ AllSpace(SubSeq(pre, g + 1, Len(pre)))
                      /\ \A f \in 1..(g - 1) : ~AllSpace(SubSeq(pre, f + 1, Len(pre)))
           IN  [matched |-> TRUE, group1 |-> SubSeq(pre, 1, g), group2 |-> line[n - 1]]
      ELSE [matched |-> FALSE, group1 |-> <<>>, group2 |-> "0"]

\* line 103: re.match(r'^.+?\s*\(h[1-6]\)$', next_line)
IsHeading(line) == HeadingMatch(line).matched

BaseKeys == {"type", "heading", "level", "content"}

\* Lines 111-124 with the disclaimer branch left out.
SectionDataNoDisclaimer(heading, level, content) ==
  LET type == detect_section_type(heading, content)
      section_data == [type |-> type, heading |-> heading,
                       level |-> level, content |-> content]
  IN  IF type = "comparison_table"
      THEN section_data @@ ("table_data" :> parse_csv_table(content))
      ELSE IF type = "platform_review"
      THEN section_data @@ ("review_data" :> parse_platform_review(heading, content))
      ELSE section_data

\* lines 111-124: the dict appended for a section
SectionData(heading, level, content) ==
  LET type == detect_section_type(heading, content)
      section_data == [type |-> type, heading |-> heading,
                       level |-> level, content |-> content]
  IN  IF type = "comparison_table"
      THEN section_data @@ ("table_data" :> parse_csv_table(content))
      ELSE IF type = "platform_review"
      THEN section_data @@ ("review_data" :> parse_platform_review(heading, content))
      ELSE IF type = "disclaimer"
      THEN section_data @@ ("disclaimer_data" :> parse_disclaimer(content))
      ELSE section_data

\* lines 119-120: the one sub-parser call that can raise
SectionRaises(heading, content) ==
  /\ detect_section_type(heading, content) = "comparison_table"
  /\ parse_csv_table_raises(content)

(***************************************************************************)
(* parse(): one action per loop iteration                                  *)
(***************************************************************************)
subVars == <<arg, ret, frame, other, returned>>

segVars == <<sections, heading_text, heading_level, content_lines, spans>>

\* The scan resuming after the lines the notes lookahead has captured.
MetadataStepSkipsNotes ==
  /\ pc = "metadata"
  /\ i < Len(lines)
  /\ ~(ReachesContentTest(lines, i) /\ IsContentLine(At(lines, i)))
  /\ IF MetadataLineRaises(lines, i)
     THEN /\ pc' = "done"
          /\ outcome' = "error"
          /\ UNCHANGED <<metadata, i>>
     ELSE /\ metadata' = MetadataLine(metadata, lines, i)
          /\ i' = IF StartsWith(At(lines, i), sNotesForMJ)
                  THEN i + 1 + Len(NotesLines(lines, i + 1))
                  ELSE i + 1
          /\ UNCHANGED <<pc, outcome>>
  /\ UNCHANGED <<lines, current_line, segVars, subVars>>

\* lines 38-71: one iteration of the metadata loop that does not break
MetadataStep ==
  /\ pc = "metadata"
  /\ i < Len(lines)
  /\ ~(ReachesContentTest(lines, i) /\ IsContentLine(At(lines, i)))
  /\ IF MetadataLineRaises(lines, i)
     THEN /\ pc' = "done"
          /\ outcome' = "error"
          /\ UNCHANGED <<metadata, i>>
     ELSE /\ metadata' = MetadataLine(metadata, lines, i)
          /\ i' = i + 1
          /\ UNCHANGED <<pc, outcome>>
  /\ UNCHANGED <<lines, current_line, segVars, subVars>>

\* The break of lines 72-74 leaving the cursor on the Content line itself.
MetadataBreakOnMarker ==
  /\ pc = "metadata"
  /\ i < Len(lines)
  /\ ReachesContentTest(lines, i) /\ IsContentLine(At(lines, i))
  /\ current_line' = i
  /\ pc' = "sections"
  /\ i' = i
  /\ UNCHANGED <<lines, metadata, segVars, outcome, subVars>>

\* lines 72-74, then lines 80-81: the scan breaks at the Content line and the
\* segmenter starts at the cursor
MetadataBreak ==
  /\ pc = "metadata"
  /\ i < Len(lines)
  /\ ReachesContentTest(lines, i) /\ IsContentLine(At(lines, i))
  /\ current_line' = i + 1
  /\ pc' = "sections"
  /\ i' = i + 1
  /\ UNCHANGED <<lines, metadata, segVars, outcome, subVars>>

\* The end of the scan moving the cursor to the end of the input.
MetadataEndAtEof ==
  /\ pc = "metadata"
  /\ i = Len(lines)
  /\ pc' = "sections"
  /\ current_line' = Len(lines)
  /\ i' = Len(lines)
  /\ UNCHANGED <<lines, metadata, segVars, outcome, subVars>>

\* The end of the scan raising when no Content line was met.
MetadataEndRaises ==
  /\ pc = "metadata"
  /\ i = Len(lines)
  /\ pc' = "done"
  /\ outcome' = "error"
  /\ UNCHANGED <<lines, current_line, i, metadata, segVars, subVars>>

\* line 38 exhausted, line 76, then lines 80-81: no Content line was met
MetadataEnd ==
  /\ pc = "metadata"
  /\ i = Len(lines)
  /\ pc' = "sections"
  /\ i' = current_line
  /\ UNCHANGED <<lines, current_line, metadata, segVars, outcome, subVars>>

\* The outer loop passing over a line without moving the index.
SkipLineStays ==
  /\ pc = "sections"
  /\ i < Len(lines)
  /\ ~IsHeading(Strip(At(lines, i)))
  /\ UNCHANGED vars

\* lines 83-89 and 127-128: a blank line or a line that is no heading
SkipLine ==
  /\ pc = "sections"
  /\ i < Len(lines)
  /\ ~IsHeading(Strip(At(lines, i)))
  /\ i' = i + 1
  /\ UNCHANGED <<lines, current_line, pc, metadata, segVars, outcome, subVars>>

\* lines 92-99: a heading line opens a section
OpenSection ==
  /\ pc = "sections"
  /\ i < Len(lines)
  /\ LET heading_match == HeadingMatch(Strip(At(lines, i)))
     IN  /\ heading_match.matched
         /\ heading_text' = heading_match.group1
         /\ heading_level' = LevelOf(heading_match.group2)
  /\ content_lines' = <<>>
  /\ spans' = Append(spans, [marker |-> i, body |-> <<>>])
  /\ i' = i + 1
  /\ pc' = "content"
  /\ UNCHANGED <<lines, current_line, metadata, sections, outcome, subVars>>

\* The inner loop appending the stripped next_line instead of self.lines[i].
CollectLineStripped ==
  /\ pc = "content"
  /\ i < Len(lines)
  /\ ~IsHeading(Strip(At(lines, i)))
  /\ content_lines' = Append(content_lines, Strip(At(lines, i)))
  /\ spans' = [spans EXCEPT ![Len(spans)].body = Append(@, i)]
  /\ i' = i + 1
  /\ UNCHANGED <<lines, current_line, pc, metadata, sections, heading_text,
                 heading_level, outcome, subVars>>

\* lines 100-106: one iteration of the inner loop that does not break
CollectLine ==
  /\ pc = "content"
  /\ i < Len(lines)
  /\ ~IsHeading(Strip(At(lines, i)))
  /\ content_lines' = Append(content_lines, At(lines, i))
  /\ spans' = [spans EXCEPT ![Len(spans)].body = Append(@, i)]
  /\ i' = i + 1
  /\ UNCHANGED <<lines, current_line, pc, metadata, sections, heading_text,
                 heading_level, outcome, subVars>>

\* The section closed with the index moved one line too far.
CloseSectionSkipsLine ==
  /\ pc = "content"
  /\ IF i < Len(lines) THEN IsHeading(Strip(At(lines, i))) ELSE TRUE
  /\ sections' = Append(sections,
                        SectionData(heading_text, heading_level,
                                    Strip(Join(content_lines, NL))))
  /\ i' = i + 1
  /\ pc' = "sections"
  /\ UNCHANGED <<lines, current_line, metadata, heading_text, heading_level,
                 content_lines, spans, outcome, subVars>>

\* lines 100-104 leaving the inner loop, then lines 108-126; an error of the
\* csv reader (line 120) is caught nowhere and ends parse()
CloseSection ==
  /\ pc = "content"
  /\ IF i < Len(lines) THEN IsHeading(Strip(At(lines, i))) ELSE TRUE
  /\ IF SectionRaises(heading_text, Strip(Join(content_lines, NL)))
     THEN /\ pc' = "done"
          /\ outcome' = "error"
          /\ UNCHANGED sections
     ELSE /\ sections' = Append(sections,
                                SectionData(heading_text, heading_level,
                                            Strip(Join(content_lines, NL))))
          /\ pc' = "sections"
          /\ UNCHANGED outcome
  /\ UNCHANGED <<lines, current_line, i, metadata, heading_text, heading_level,
                 content_lines, spans, subVars>>

\* line 83 exhausted, line 130, line 24: parse returns the document
Return ==
  /\ pc = "sections"
  /\ i >= Len(lines)
  /\ pc' = "done"
  /\ outcome' = "document"
  /\ returned' = Append(returned, [metadata |-> metadata, sections |-> sections])
  /\ UNCHANGED <<lines, current_line, i, metadata, segVars, arg, ret, frame, other>>

\* calls of parse() made on one instance
MaxCalls == 2

\* parse() called again with the list of sections kept from the call before.
ReparseKeepsSections ==
  /\ pc = "done"
  /\ outcome = "document"
  /\ Len(returned) < MaxCalls
  /\ pc' = "metadata"
  /\ i' = 0
  /\ metadata' = EmptyMetadata
  /\ heading_text' = <<>>
  /\ heading_level' = 0
  /\ content_lines' = <<>>
  /\ spans' = <<>>
  /\ outcome' = "none"
  /\ UNCHANGED <<lines, current_line, sections, arg, ret, frame, other, returned>>

\* lines 18-22: parse() called again on the same instance.  The dict
\* of _parse_metadata, the list of _parse_content_sections and the loop
\* locals are created anew; self.lines and self.current_line are what the
\* call before left
Reparse ==
  /\ pc = "done"
  /\ outcome = "document"
  /\ Len(returned) < MaxCalls
  /\ pc' = "metadata"
  /\ i' = 0
  /\ metadata' = EmptyMetadata
  /\ sections' = <<>>
  /\ heading_text' = <<>>
  /\ heading_level' = 0
  /\ content_lines' = <<>>
  /\ spans' = <<>>
  /\ outcome' = "none"
  /\ UNCHANGED <<lines, current_line, arg, ret, frame, other, returned>>

(***************************************************************************)
(* A second instance: the same steps on a record of its own                *)
(***************************************************************************)
\* lines 13-16, then parse() entered, for the instance built on these lines
NewParser(ls) ==
  [lines |-> ls, current_line |-> 0, pc |-> "metadata", i |-> 0,
   metadata |-> EmptyMetadata, sections |-> <<>>, heading_text |-> <<>>,
   heading_level |-> 0, content_lines |-> <<>>, outcome |-> "none"]

\* lines 38-76 and 80-81: one step of the metadata scan of instance p
MetadataStepOf(p) ==
  IF p.i < Len(p.lines)
  THEN IF ReachesContentTest(p.lines, p.i) /\ IsContentLine(At(p.lines, p.i))
       THEN [p EXCEPT !.current_line = p.i + 1, !.pc = "sections", !.i = p.i + 1]
       ELSE IF MetadataLineRaises(p.lines, p.i)
       THEN [p EXCEPT !.pc = "done", !.outcome = "error"]
       ELSE [p EXCEPT !.metadata = MetadataLine(p.metadata, p.lines, p.i),
                      !.i = p.i + 1]
  ELSE [p EXCEPT !.pc = "sections", !.i = p.current_line]

\* lines 83-99 and 127-130: one step of the outer loop of instance p
SectionsStepOf(p) ==
  IF p.i >= Len(p.lines)
  THEN [p EXCEPT !.pc = "done", !.outcome = "document"]
  ELSE LET heading_match == HeadingMatch(Strip(At(p.lines, p.i)))
       IN  IF heading_match.matched
           THEN [p EXCEPT !.heading_text = heading_match.group1,
                          !.heading_level = LevelOf(heading_match.group2),
                          !.content_lines = <<>>,
                          !.i = p.i + 1,
                          !.pc = "content"]
           ELSE [p EXCEPT !.i = p.i + 1]

\* lines 100-126: one step of the inner loop of instance p, or its end
ContentStepOf(p) ==
  IF p.i < Len(p.lines) /\ ~IsHeading(Strip(At(p.lines, p.i)))
  THEN [p EXCEPT !.content_lines = Append(@, At(p.lines, p.i)), !.i = p.i + 1]
  ELSE LET content == Strip(Join(p.content_lines, NL))
       IN  IF SectionRaises(p.heading_text, content)
           THEN [p EXCEPT !.pc = "done", !.outcome = "error"]
           ELSE [p EXCEPT !.sections =
                            Append(@, SectionData(p.heading_text, p.heading_level,
                                                  content)),
                          !.pc = "sections"]

\* one step of parse() on instance p
ParserStep(p) ==
  IF p.pc = "metadata" THEN MetadataStepOf(p)
  ELSE IF p.pc = "sections" THEN SectionsStepOf(p)
  ELSE IF p.pc = "content" THEN ContentStepOf(p)
  ELSE p

\* parse() on instance p run to its end with nothing else running
RECURSIVE RunAlone(_)
RunAlone(p) == IF p.pc = "done" THEN p ELSE RunAlone(ParserStep(p))

\* the first instance as a record
Self ==
  [lines |-> lines, current_line |-> current_line, pc |-> pc, i |-> i,
   metadata |-> metadata, sections |-> sections, heading_text |-> heading_text,
   heading_level |-> heading_level, content_lines |-> content_lines,
   outcome |-> outcome]

\* A step of the second instance with the cursor kept in one place for all
\* instances (a class attribute) rather than in each instance.
OtherStepSharedCursor ==
  /\ other.pc # "done"
  /\ other' = ParserStep(other)
  /\ current_line' = ParserStep(other).current_line
  /\ UNCHANGED <<lines, pc, i, metadata, segVars, outcome, arg, ret, frame, returned>>

\* a step of the second instance: it reads and writes its own attributes and
\* locals only
OtherStep ==
  /\ other.pc # "done"
  /\ other' = ParserStep(other)
  /\ UNCHANGED <<lines, current_line, pc, i, metadata, segVars, outcome, arg, ret,
                 frame, returned>>

(***************************************************************************)
(* _parse_platform_review called on its own: one action per line           *)
(***************************************************************************)
callVars == <<lines, current_line, i, metadata, segVars, arg, other, returned>>

\* lines 171-192
ReviewEnter ==
  /\ pc = "review"
  /\ frame' = ReviewEnterFrame(arg.heading, arg.content)
  /\ pc' = "review_walk"
  /\ UNCHANGED <<callVars, ret, outcome>>

\* lines 194-218: one iteration of `for line in lines`
ReviewStep ==
  /\ pc = "review_walk"
  /\ frame.n < Len(frame.lines)
  /\ LET line == At(frame.lines, frame.n)
     IN  IF ReviewLineRaises(frame.st, line)
         THEN /\ pc' = "done"
              /\ outcome' = "error"
              /\ UNCHANGED frame
         ELSE /\ frame' = [frame EXCEPT !.st = ReviewLine(@, line), !.n = @ + 1]
              /\ UNCHANGED <<pc, outcome>>
  /\ UNCHANGED <<callVars, ret>>

\* lines 220-223
ReviewReturn ==
  /\ pc = "review_walk"
  /\ frame.n = Len(frame.lines)
  /\ ret' = ReviewResult(frame)
  /\ outcome' = "returned"
  /\ pc' = "done"
  /\ UNCHANGED <<callVars, frame>>

(***************************************************************************)
(* _parse_disclaimer called on its own: one action per line                *)
(***************************************************************************)
\* lines 227-232
DisclaimerEnter ==
  /\ pc = "disclaimer"
  /\ frame' = DisclaimerEnterFrame(arg)
  /\ pc' = "disclaimer_walk"
  /\ UNCHANGED <<callVars, ret, outcome>>

\* lines 234-251: one iteration of `for line in lines`
DisclaimerStep ==
  /\ pc = "disclaimer_walk"
  /\ frame.n < Len(frame.lines)
  /\ frame' = [frame EXCEPT !.st = DisclaimerLine(@, At(frame.lines, frame.n)),
                            !.n = @ + 1]
  /\ UNCHANGED <<callVars, ret, outcome, pc>>

\* lines 253-260
DisclaimerReturn ==
  /\ pc = "disclaimer_walk"
  /\ frame.n = Len(frame.lines)
  /\ ret' = DisclaimerResult(frame)
  /\ outcome' = "returned"
  /\ pc' = "done"
  /\ UNCHANGED <<callVars, frame>>

(***************************************************************************)
(* Inputs                                                                  *)
(***************************************************************************)
\* longest document, in lines
MaxLines == 3

lContent == <<"C", "o", "n", "t", "e", "n", "t">>
lPadContent == <<" ", "C", "o", "n", "t", "e", "n", "t">>
lBlank == <<>>
lText == <<" ", "x">>
lPlain == <<"T", " ", "(", "h", "1", ")">>
lNotice == <<"N", "o", "t", "i", "c", "e", " ", "(", "h", "2", ")", " ">>
lReview == <<"1", ".", " ", "A", " ", "-", " ", "b", " ", "(", "h", "3", ")">>
lFaq == <<"F", "A", "Q", "(", "h", "4", ")">>
lVerdict == <<"V", "e", "r", "d", "i", "c", "t", " ", "(", "h", "6", ")">>
lCsv == <<"c", "s", "v">>
lRow == <<"a", ",", "b">>
lBare == <<"(", "h", "2", ")">>

DocLines == {lContent, lPadContent, lBlank, lText, lPlain, lNotice, lReview, lFaq, lVerdict, lCsv, lRow, lBare}

\* content.split('\n') is never empty: the empty text is one empty line
Documents == UNION {[1..n -> DocLines] : n \in 1..MaxLines}

hNotice == <<"A", " ", "N", "o", "t", "i", "c", "e">>
hDisclaimer == <<"D", "I", "S", "C", "L", "A", "I", "M", "E", "R">>
hNumFaq == <<"3", ".", " ", "F", "A", "Q", " ", "x">>
hFaq == <<"F", "a", "q">>
hFreq == <<"F", "r", "e", "q", "u", "e", "n", "t", "l", "y", " ", "A", "s", "k", "e", "d">>
hReview == <<"1", ".", " ", "C", "a", "s", "u", "m", "o">>
hNoSpace == <<"1", ".", "C", "a", "s", "u", "m", "o">>
hNoWord == <<"1", ".", " ", "-">>
hNumVerdict == <<"2", ".", " ", "V", "e", "r", "d", "i", "c", "t">>
hVerdict == <<"V", "e", "r", "d", "i", "c", "t">>
hConclusion == <<"I", "n", " ", "c", "o", "n", "c", "l", "u", "s", "i", "o", "n">>
hIntro == <<"I", "n", "t", "r", "o">>
hNoticeFaq == <<"F", "A", "Q", " ", "n", "o", "t", "i", "c", "e">>
hNumNotice == <<"4", ".", " ", "N", "o", "t", "i", "c", "e">>

Headings == {hNotice, hDisclaimer, hNumFaq, hFaq, hFreq, hReview, hNoSpace, hNoWord, hNumVerdict, hVerdict, hConclusion, hIntro, hNoticeFaq, hNumNotice}

cCsvTable == <<"c", "s", "v", NL, "N", NL, "a">>
cText == <<"t", "e", "x", "t">>
cEmpty == <<>>
cPadCsv == <<" ", "c", "s", "v">>
cCsvWord == <<"c", "s", "v", "x">>
cLateCsv == <<"x", " ", "c", "s", "v">>
cUpperCsv == <<"C", "S", "V">>

Contents == {cCsvTable, cText, cEmpty, cPadCsv, cCsvWord, cLateCsv, cUpperCsv}

\* longest csv content, in lines
MaxCsvLines == 4

vCsv == <<"c", "s", "v">>
vName == <<"N", "a", "m", "e">>
vNameScore == <<"N", "a", "m", "e", ",", "S", "c", "o", "r", "e">>
vAlpha9 == <<"A", "l", "p", "h", "a", ",", "9">>
vBeta7 == <<"B", "e", "t", "a", ",", "7">>
vBeta == <<"B", "e", "t", "a">>
vBlank == <<>>
vLong == <<"a", ",", "b", ",", "c">>
vCr == <<"a", CR, "b">>

CsvLines == {vCsv, vName, vNameScore, vAlpha9, vBeta7, vBeta, vBlank, vLong, vCr}

\* a section's content is outer-trimmed (line 108) before it is parsed
CsvContents ==
  {Join(ls, NL) : ls \in {l \in UNION {[1..n -> CsvLines] : n \in 1..MaxCsvLines} :
                            l[1] # <<>> /\ l[Len(l)] # <<>>}}

\* longest document with a metadata header, in lines
MaxMetaLines == 3

mKeyword == <<"T", "a", "r", "g", "e", "t", " ", "K", "e", "y", "w", "o", "r", "d", ":", " ", "k">>
mGeo == <<"T", "a", "r", "g", "e", "t", " ", "G", "e", "o", ":", " ", "g">>
mSlug == <<"U", "R", "L", " ", "S", "l", "u", "g", ":">>
mTitle == <<"M", "e", "t", "a", " ", "T", "i", "t", "l", "e">>
mDescription == <<"M", "e", "t", "a", " ", "D", "e", "s", "c", "r", "i", "p", "t", "i", "o", "n", ":">>
mNotes == <<"N", "o", "t", "e", "s", " ", "f", "o", "r", " ", "M", "J", ":">>
mImage == <<"F", "e", "a", "t", "u", "r", "e", "d", " ", "i", "m", "a", "g", "e", ":">>
mSeo == <<"S", "E", "O", " ", "T", "i", "t", "l", "e", ":", " ", "s">>
mAlt == <<"A", "L", "T", " ", "T", "a", "g", ":", " ", "a">>
mValue == <<" ", "v">>
mGeoAgain == <<"T", "a", "r", "g", "e", "t", " ", "G", "e", "o", ":", " ", "h">>

MetaLines ==
  {mKeyword, mGeo, mGeoAgain, mSlug, mTitle, mDescription, mNotes, mImage, mSeo, mAlt,
   mValue, lBlank, lContent, lPlain}

MetaDocuments == UNION {[1..n -> MetaLines] : n \in 1..MaxMetaLines}

\* longest document of the termination runs, in lines
MaxFairLines == 2

\* the lines that start a lookahead, end the header, open a section or are
\* passed over
FairLines == {mNotes, mImage, lContent, lPlain, mValue}

FairDocuments == UNION {[1..n -> FairLines] : n \in 1..MaxFairLines}

\* longest document of two instances running side by side, in lines
MaxTwoLines == 2

TwoLines == {lContent, lPlain, lText, mKeyword}

TwoDocuments == UNION {[1..n -> TwoLines] : n \in 1..MaxTwoLines}

\* longest review content, in lines
MaxReviewLines == 3

rhCasumo == <<"1", ".", " ", "C", "a", "s", "u", "m", "o", " ", "-", " ", "P", "l", "a", "y", " ", "M", "o", "r", "e", ",", " ", "W", "o", "r", "r", "y", " ", "L", "e", "s", "s">>
rhHyphenName == <<"2", ".", " ", "A", "-", "b", " ", "-", " ", "c">>
rhNoSep == <<"3", ".", " ", "C", "a", "s", "u", "m", "o">>
rhWide == <<"1", "2", ".", " ", " ", "A", " ", " ", "-", " ", " ", "b">>
rhTrailDash == <<"4", ".", " ", "A", " ", "-">>

ReviewHeadings == {rhCasumo, rhHyphenName, rhNoSep, rhWide, rhTrailDash}

rPros == <<"P", "r", "o", "s", ":">>
rCons == <<"C", "o", "n", "s", ":", " ", "c">>
rCompat == <<"C", "o", "m", "p", "a", "t", "i", "b", "i", "l", "i", "t", "y", ":", " ", "i", "O", "S">>
rVerdict == <<"V", "e", "r", "d", "i", "c", "t", ":", " ", "o", "k">>
rBullet == <<" ", Bullet, " ", "a">>
rText == <<"t">>
rKey == <<"k", ":", " ", "v">>
rBlank == <<>>

ReviewLines == {rPros, rCons, rCompat, rVerdict, rBullet, rText, rKey, rBlank}

\* content = '\n'.join(content_lines).strip() (line 108)
ReviewContents ==
  {Strip(Join(ls, NL)) : ls \in UNION {[1..n -> ReviewLines] : n \in 1..MaxReviewLines}}

\* longest disclaimer content, in lines
MaxDisclaimerLines == 4

dEligibility == <<"E", "l", "i", "g", "i", "b", "i", "l", "i", "t", "y", ":">>
dRegion == <<"R", "e", "g", "i", "o", "n", ":", ":">>
dText == <<"M", "u", "s", "t", " ", "b", "e", " ", "1", "8", "+", ".">>
dBulletColon == <<Bullet, " ", "y", ":">>
dColon == <<":">>
dBlank == <<>>

DisclaimerLines == {dEligibility, dRegion, dText, dBulletColon, dColon, dBlank}

\* content = '\n'.join(content_lines).strip() (line 108)
DisclaimerContents ==
  {Strip(Join(ls, NL)) :
     ls \in UNION {[1..n -> DisclaimerLines] : n \in 1..MaxDisclaimerLines}}

\* longest review content of the line-walk pool, in lines
MaxWalkLines == 4

wPros == <<"P", "r", "o", "s", ":", " ", "p">>
wVerdictCompliance == <<"V", "e", "r", "d", "i", "c", "t", ":", " ", "C", "o", "m", "p", "l", "i", "a", "n", "c", "e", ":", " ", "x">>
wBulletKey == <<Bullet, " ", "k", ":", " ", Bullet, " ", "b">>
wKeyAgain == <<"k", ":", " ", "w">>

WalkLines ==
  {wPros, rCons, rCompat, rVerdict, wVerdictCompliance, rBullet, wBulletKey,
   rText, rKey, wKeyAgain, rBlank}

\* content = '\n'.join(content_lines).strip() (line 108)
WalkContents ==
  {Strip(Join(ls, NL)) : ls \in UNION {[1..n -> WalkLines] : n \in 1..MaxWalkLines}}

(***************************************************************************)
(* Specifications                                                          *)
(***************************************************************************)
Idle ==
  /\ lines = <<>>
  /\ current_line = 0
  /\ i = 0
  /\ metadata = EmptyMetadata
  /\ sections = <<>>
  /\ heading_text = <<>>
  /\ heading_level = 0
  /\ content_lines = <<>>
  /\ spans = <<>>
  /\ outcome = "none"
  /\ frame = <<>>
  /\ other = <<>>
  /\ returned = <<>>

\* lines 13-16, then parse() entered: ContentParser(content).parse()
Init ==
  /\ lines \in Documents
  /\ current_line = 0
  /\ pc = "metadata"
  /\ i = 0
  /\ metadata = EmptyMetadata
  /\ sections = <<>>
  /\ heading_text = <<>>
  /\ heading_level = 0
  /\ content_lines = <<>>
  /\ spans = <<>>
  /\ outcome = "none"
  /\ frame = <<>>
  /\ other = <<>>
  /\ returned = <<>>
  /\ arg = <<>>
  /\ ret = <<>>

Next ==
  \/ MetadataStep
  \/ MetadataBreak
  \/ MetadataEnd
  \/ SkipLine
  \/ OpenSection
  \/ CollectLine
  \/ CloseSection
  \/ Return

Spec == Init /\ [][Next]_vars

\* parse() of a document with a metadata header
InitMeta ==
  /\ lines \in MetaDocuments
  /\ current_line = 0
  /\ pc = "metadata"
  /\ i = 0
  /\ metadata = EmptyMetadata
  /\ sections = <<>>
  /\ heading_text = <<>>
  /\ heading_level = 0
  /\ content_lines = <<>>
  /\ spans = <<>>
  /\ outcome = "none"
  /\ arg = <<>>
  /\ ret = <<>>
  /\ frame = <<>>
  /\ other = <<>>
  /\ returned = <<>>

SpecMeta == InitMeta /\ [][Next]_vars

\* parse() called up to MaxCalls times on one instance
NextTwice ==
  \/ Next
  \/ Reparse

SpecTwice == Init /\ [][NextTwice]_vars

\* parse() runs to its end in one thread: a step that can be taken is taken
InitFair ==
  /\ lines \in FairDocuments
  /\ current_line = 0
  /\ pc = "metadata"
  /\ i = 0
  /\ metadata = EmptyMetadata
  /\ sections = <<>>
  /\ heading_text = <<>>
  /\ heading_level = 0
  /\ content_lines = <<>>
  /\ spans = <<>>
  /\ outcome = "none"
  /\ arg = <<>>
  /\ ret = <<>>
  /\ frame = <<>>
  /\ other = <<>>
  /\ returned = <<>>

SpecFair == InitFair /\ [][Next]_vars /\ WF_vars(Next)

\* two instances, each on a document of its own, their steps interleaved
InitTwo ==
  /\ lines \in TwoDocuments
  /\ current_line = 0
  /\ pc = "metadata"
  /\ i = 0
  /\ metadata = EmptyMetadata
  /\ sections = <<>>
  /\ heading_text = <<>>
  /\ heading_level = 0
  /\ content_lines = <<>>
  /\ spans = <<>>
  /\ outcome = "none"
  /\ arg = <<>>
  /\ ret = <<>>
  /\ frame = <<>>
  /\ other \in {NewParser(ls) : ls \in TwoDocuments}
  /\ returned = <<>>

NextTwo ==
  \/ Next
  \/ OtherStep

SpecTwo == InitTwo /\ [][NextTwo]_vars

\* _detect_section_type called on its own
InitClassify ==
  /\ Idle
  /\ pc = "classify"
  /\ arg \in [heading : Headings, content : Contents]
  /\ ret = <<>>

Classify ==
  /\ pc = "classify"
  /\ ret' = detect_section_type(arg.heading, arg.content)
  /\ pc' = "done"
  /\ UNCHANGED <<parserVars, arg, frame, other, returned>>

SpecClassify == InitClassify /\ [][Classify]_vars

\* _parse_csv_table called on its own
InitCsv ==
  /\ Idle
  /\ pc = "csv"
  /\ arg \in CsvContents
  /\ ret = <<>>

ParseCsv ==
  /\ pc = "csv"
  /\ IF parse_csv_table_raises(arg)
     THEN outcome' = "error" /\ UNCHANGED ret
     ELSE outcome' = "returned" /\ ret' = parse_csv_table(arg)
  /\ pc' = "done"
  /\ UNCHANGED <<callVars, frame>>

SpecCsv == InitCsv /\ [][ParseCsv]_vars

\* _parse_platform_review called on its own
InitReview ==
  /\ Idle
  /\ pc = "review"
  /\ arg \in [heading : ReviewHeadings, content : ReviewContents]
  /\ ret = <<>>

NextReview ==
  \/ ReviewEnter
  \/ ReviewStep
  \/ ReviewReturn

SpecReview == InitReview /\ [][NextReview]_vars

\* _parse_disclaimer called on its own
InitDisclaimer ==
  /\ Idle
  /\ pc = "disclaimer"
  /\ arg \in DisclaimerContents
  /\ ret = <<>>

NextDisclaimer ==
  \/ DisclaimerEnter
  \/ DisclaimerStep
  \/ DisclaimerReturn

SpecDisclaimer == InitDisclaimer /\ [][NextDisclaimer]_vars

\* _parse_platform_review called on its own, on contents rich in marker lines
InitWalk ==
  /\ Idle
  /\ pc = "review"
  /\ arg \in [heading : {rhCasumo}, content : WalkContents]
  /\ ret = <<>>

SpecWalk == InitWalk /\ [][NextReview]_vars

(***************************************************************************)
(* Properties                                                              *)
(***************************************************************************)
SectionTypes ==
  {"disclaimer", "comparison_table", "faq_section", "platform_review",
   "verdict", "standard"}

\* the 0-based indices of a sequence of lines, in order
Indices(ls) == [k \in 1..Len(ls) |-> k - 1]

\* a heading marker as the segmenter tests it: on the trimmed line
TrimmedMarker(line) ==
  LET t == Strip(line)
      n == Len(t)
  IN  /\ n >= 5
      /\ SubSeq(t, n - 3, n - 2) = <<"(", "h">>
      /\ t[n - 1] \in {"1", "2", "3", "4", "5", "6"}
      /\ t[n] = ")"

\* a heading marker read on the raw line: non-blank text, optional
\* whitespace, and (hN) as the last four characters of the line
RawMarker(line) ==
  LET n == Len(line)
  IN  /\ n >= 5
      /\ SubSeq(line, n - 3, n - 2) = <<"(", "h">>
      /\ line[n - 1] \in {"1", "2", "3", "4", "5", "6"}
      /\ line[n] = ")"
      /\ ~AllSpace(SubSeq(line, 1, n - 4))

\* the marker lines at or after 0-based index from, in source order
MarkersFrom(from) ==
  LET IsMarkerAt(j) == j >= from /\ TrimmedMarker(At(lines, j))
  IN  SelectSeq(Indices(lines), IsMarkerAt)

\* the index of the first line that is exactly / after trimming "Content"
\* (Len(lines) when there is none)
FirstWhere(P(_)) ==
  IF \E j \in 0..(Len(lines) - 1) : P(At(lines, j))
  THEN CHOOSE j \in 0..(Len(lines) - 1) :
         P(At(lines, j)) /\ \A m \in 0..(j - 1) : ~P(At(lines, m))
  ELSE Len(lines)

IsExactContent(line) == line = sContent

IsTrimmedContent(line) == Strip(line) = sContent

FirstExactContent == FirstWhere(IsExactContent)

FirstTrimmedContent == FirstWhere(IsTrimmedContent)

HasExactContent == FirstExactContent < Len(lines)

HasTrimmedContent == FirstTrimmedContent < Len(lines)

\* ---- C1 ----
Rule1 ==
  \/ Contains(Lower(arg.heading), sNotice)
  \/ Contains(Lower(arg.heading), sDisclaimer)

Rule2 == StartsWith(Strip(arg.content), sCsv)

Rule3 ==
  \/ Contains(Lower(arg.heading), sFaq)
  \/ Contains(Lower(arg.heading), sFrequentlyAsked)

Rule4 == NumberedHeading(arg.heading)

Rule5 ==
  \/ Contains(Lower(arg.heading), sVerdict)
  \/ Contains(Lower(arg.heading), sConclusion)

\* C1: _detect_section_type returns the tag of the first rule that matches,
\* in the order disclaimer, comparison_table, faq_section, platform_review,
\* verdict, standard; '3. FAQ ...' is faq_section and a notice heading over
\* csv content is disclaimer.
C1_FirstMatchWins ==
  pc = "done" =>
    /\ Rule1 => ret = "disclaimer"
    /\ ~Rule1 /\ Rule2 => ret = "comparison_table"
    /\ ~Rule1 /\ ~Rule2 /\ Rule3 => ret = "faq_section"
    /\ ~Rule1 /\ ~Rule2 /\ ~Rule3 /\ Rule4 => ret = "platform_review"
    /\ ~Rule1 /\ ~Rule2 /\ ~Rule3 /\ ~Rule4 /\ Rule5 => ret = "verdict"
    /\ ~Rule1 /\ ~Rule2 /\ ~Rule3 /\ ~Rule4 /\ ~Rule5 => ret = "standard"
    /\ arg.heading = hNumFaq /\ arg.content = cText => ret = "faq_section"
    /\ arg.heading = hNotice /\ arg.content = cCsvTable => ret = "disclaimer"

\* a heading that satisfies rule 3 and rule 4 has been classified
C1_Witness ==
  /\ pc = "done"
  /\ arg.heading = hNumFaq
  /\ Rule3 /\ Rule4 /\ ~Rule1 /\ ~Rule2
  /\ ret = "faq_section"

\* ---- C2 ----
\* the content of the section whose marker is the k-th of ms
SpanContent(ms, k) ==
  LET stop == IF k < Len(ms) THEN ms[k + 1] ELSE Len(lines)
  IN  Strip(Join(Slice(lines, ms[k] + 1, stop), NL))

\* C2: _parse_content_sections emits exactly one section per heading-marker
\* line at or after the cursor, in source order; each section's content is the
\* trimmed newline-join of the lines strictly between its marker and the next
\* marker (or the end); lines before the first marker produce no section.
C2_OneSectionPerMarker ==
  pc = "done" =>
    LET ms == MarkersFrom(current_line)
    IN  /\ Len(sections) = Len(ms)
        /\ \A k \in 1..Len(ms) :
             /\ spans[k].marker = ms[k]
             /\ sections[k].content = SpanContent(ms, k)

\* two sections were emitted in source order, the first with the line between
\* the two markers as its content
C2_Witness ==
  /\ pc = "done"
  /\ Len(sections) = 2
  /\ spans[1].marker + 2 = spans[2].marker
  /\ sections[1].content # <<>>
  /\ sections[1].content = Strip(At(lines, spans[1].marker + 1))

\* ---- C3 ----
\* how many times the spans account for the line at 0-based index j: once by
\* the metadata header span (the lines before the cursor), once per section
\* that has it as marker line, once per place in a content span
Accounted(j) ==
  (IF j < current_line THEN 1 ELSE 0)
  + Cardinality({k \in 1..Len(spans) : spans[k].marker = j})
  + Cardinality({q \in {<<k, n>> : k \in 1..Len(spans), n \in 1..Len(lines)} :
                   q[2] <= Len(spans[q[1]].body) /\ spans[q[1]].body[q[2]] = j})

\* each content span is the run of lines from just after its marker up to the
\* next marker (or the end), and is what the section's content was built from
SpansContiguous ==
  \A k \in 1..Len(spans) :
    LET stop == IF k < Len(spans) THEN spans[k + 1].marker ELSE Len(lines)
    IN  /\ spans[k].body = [n \in 1..(stop - spans[k].marker - 1) |-> spans[k].marker + n]
        /\ sections[k].content =
             Strip(Join([n \in 1..Len(spans[k].body) |-> At(lines, spans[k].body[n])], NL))

\* the first marker line at or after the cursor (Len(lines) when there is none)
FirstMarker ==
  LET ms == MarkersFrom(current_line)
  IN  IF ms = <<>> THEN Len(lines) ELSE ms[1]

\* C3 as stated: the metadata header span followed by every section's marker
\* line and content span accounts for every non-blank source line exactly once.
C3_Original ==
  pc = "done" =>
    /\ SpansContiguous
    /\ \A j \in 0..(Len(lines) - 1) : Strip(At(lines, j)) # <<>> => Accounted(j) = 1

\* C3 amended: the header span and the sections' marker lines and content
\* spans are contiguous, overlap nowhere, and account exactly once for every
\* non-blank line except those between the cursor and the first heading
\* marker, which are in no span.
C3_ReconstructionFromFirstMarker ==
  pc = "done" =>
    /\ SpansContiguous
    /\ \A j \in 0..(Len(lines) - 1) :
         /\ Accounted(j) <= 1
         /\ Strip(At(lines, j)) # <<>> =>
              Accounted(j) = (IF current_line <= j /\ j < FirstMarker THEN 0 ELSE 1)

\* a non-blank line between the Content line and the first marker was dropped
\* and a section with a body was emitted after it
C3_Witness ==
  /\ pc = "done"
  /\ current_line = 1
  /\ Len(sections) = 1
  /\ spans[1].marker = 2
  /\ Strip(At(lines, 1)) # <<>>
  /\ Accounted(1) = 0

NothingUpTo(f) ==
  \A k \in 1..Len(spans) :
    /\ spans[k].marker > f
    /\ \A n \in 1..Len(spans[k].body) : spans[k].body[n] > f

\* C6 as stated: the scan stops at the first line exactly equal to "Content",
\* the cursor is the index after it, and no line at or before it is a heading
\* or part of a content span.
C6_Original ==
  HasExactContent /\ pc # "metadata" =>
    current_line = FirstExactContent + 1 /\ NothingUpTo(FirstExactContent)

\* C6 amended: the same for the first line equal to "Content" after trimming
\* surrounding whitespace.
C6_CursorAfterContent ==
  HasTrimmedContent =>
    /\ pc = "metadata" => i <= FirstTrimmedContent /\ current_line = 0
    /\ pc # "metadata" =>
         /\ current_line = FirstTrimmedContent + 1
         /\ i >= current_line
         /\ NothingUpTo(FirstTrimmedContent)

\* a heading line before the Content line produced no section, one after it did
C6_Witness ==
  /\ pc = "done"
  /\ HasTrimmedContent
  /\ FirstTrimmedContent = 1
  /\ TrimmedMarker(At(lines, 0))
  /\ Len(sections) = 1
  /\ spans[1].marker = 2

\* ---- C7 ----
PayloadKey(type) ==
  IF type = "comparison_table" THEN {"table_data"}
  ELSE IF type = "platform_review" THEN {"review_data"}
  ELSE IF type = "disclaimer" THEN {"disclaimer_data"}
  ELSE {}

\* C7: a section carries a payload exactly when its type is comparison_table
\* (table_data), platform_review (review_data) or disclaimer
\* (disclaimer_data), and the payload is the one of its type; standard,
\* faq_section and verdict sections carry none.
C7_PayloadMatchesType ==
  \A k \in 1..Len(sections) :
    /\ sections[k].type \in SectionTypes
    /\ DOMAIN sections[k] = BaseKeys \cup PayloadKey(sections[k].type)

\* a disclaimer section with its payload and a section without payload
C7_Witness ==
  /\ pc = "done"
  /\ \E k \in 1..Len(sections) :
       /\ sections[k].type = "disclaimer"
       /\ "disclaimer_data" \in DOMAIN sections[k]
  /\ \E k \in 1..Len(sections) :
       /\ sections[k].type \in {"standard", "faq_section", "verdict"}
       /\ DOMAIN sections[k] = BaseKeys

\* ---- C8 ----
\* the digit N of the final (hN) of a trimmed marker line
MarkerDigit(line) == LevelOf(Strip(line)[Len(Strip(line)) - 1])

\* the text before the final (hN) of a trimmed marker line, trimmed
MarkerText(line) == Strip(SubSeq(Strip(line), 1, Len(Strip(line)) - 4))

LevelAndHeadingFromMarker ==
  \A k \in 1..Len(sections) :
    LET src == At(lines, spans[k].marker)
    IN  /\ sections[k].level \in 1..6
        /\ sections[k].level = MarkerDigit(src)
        /\ sections[k].heading = MarkerText(src)
        /\ sections[k].heading # <<>>

\* the lines at or after the cursor the segmenter took for heading markers
TakenAsMarker(j) == \E k \in 1..Len(spans) : spans[k].marker = j

\* C8 as stated: level and heading come from the marker, and a line is a
\* heading marker iff it is text, optional whitespace and a final (hN).
C8_Original ==
  /\ LevelAndHeadingFromMarker
  /\ pc = "done" =>
       \A j \in current_line..(Len(lines) - 1) :
         TakenAsMarker(j) <=> RawMarker(At(lines, j))

\* C8 amended: level and heading come from the marker, and a line is a
\* heading marker iff, after its surrounding whitespace is removed, it is
\* text, optional whitespace and a final (hN) with N in 1..6.
C8_LevelAndHeadingFromMarker ==
  /\ LevelAndHeadingFromMarker
  /\ pc = "done" =>
       \A j \in current_line..(Len(lines) - 1) :
         TakenAsMarker(j) <=> RawMarker(Strip(At(lines, j)))

\* a marker line with whitespace around it gave a section, a bare (h2) did not
C8_Witness ==
  /\ pc = "done"
  /\ \E j \in current_line..(Len(lines) - 1) : At(lines, j) = lBare /\ ~TakenAsMarker(j)
  /\ \E k \in 1..Len(sections) :
       /\ At(lines, spans[k].marker) = lNotice
       /\ sections[k].level = 2
       /\ Len(sections[k].heading) = 6

\* ---- C9 ----
sCsvLine == <<"c", "s", "v", NL>>

\* the content without a single leading line that is exactly 'csv'
WithoutLeadingCsvLine(content) ==
  IF StartsWith(content, sCsvLine) THEN SubSeq(content, Len(sCsvLine) + 1, Len(content))
  ELSE content

\* C9: _parse_csv_table removes only a single leading line that is exactly
\* 'csv' and parses everything after it; a later line equal to 'csv' is kept
\* and parsed as a row.  Stated for the tables whose header row is 'Name'.
C9_OnlyLeadingMarkerRemoved ==
  pc = "done" /\ outcome = "returned" /\ StartsWith(arg, sCsvLine)
    /\ Split(arg, NL)[2] = vName =>
    ret = DictReader(Strip(WithoutLeadingCsvLine(arg)))

\* ---- C10 ----
\* the csv content is 'csv', a header of k >= 1 distinct non-empty column
\* names (none of them 'csv'), and rows of k non-empty cells each
WellFormedTable(content) ==
  LET ls == Split(content, NL)
  IN  /\ Len(ls) >= 2
      /\ ls[1] = sCsv
      /\ LET header == Split(ls[2], ",")
         IN  /\ \A a \in 1..Len(header) : header[a] # <<>> /\ header[a] # sCsv
             /\ \A a, b \in 1..Len(header) : header[a] = header[b] => a = b
             /\ \A r \in 3..Len(ls) :
                  /\ Len(Split(ls[r], ",")) = Len(header)
                  /\ \A a \in 1..Len(header) : Split(ls[r], ",")[a] # <<>>

\* the rows of a well-formed table: the i-th maps the j-th header
\* name to the j-th cell of the i-th data row, columns in header order
ExpectedRows(content) ==
  LET ls     == Split(content, NL)
      header == Split(ls[2], ",")
  IN  [r \in 1..(Len(ls) - 2) |->
         [a \in 1..Len(header) |->
            [key |-> StrVal(header[a]), value |-> StrVal(Split(ls[r + 2], ",")[a])]]]

\* C10: for csv content with a header of k distinct columns and n data rows of
\* k cells each, _parse_csv_table returns exactly the n rows in source order,
\* each mapping the j-th header name to its j-th cell.
C10_RowsMapHeaderToCells ==
  pc = "done" /\ outcome = "returned" /\ WellFormedTable(arg) => ret = ExpectedRows(arg)

\* ---- C11 ----
\* the csv content is 'csv', a header of distinct non-empty column names (none
\* of them 'csv'), and data rows that are neither blank nor 'csv' and have at
\* most as many cells as the header
ShortRowTable(content) ==
  LET ls == Split(content, NL)
  IN  /\ Len(ls) >= 2
      /\ ls[1] = sCsv
      /\ LET header == Split(ls[2], ",")
         IN  /\ \A a \in 1..Len(header) : header[a] # <<>> /\ header[a] # sCsv
             /\ \A a, b \in 1..Len(header) : header[a] = header[b] => a = b
             /\ \A r \in 3..Len(ls) :
                  /\ ls[r] # <<>>
                  /\ ls[r] # sCsv
                  /\ Len(Split(ls[r], ",")) <= Len(header)

\* a row with every header column, the columns past its last cell mapped to ''
PaddedRow(header, cells) ==
  [a \in 1..Len(header) |->
     [key   |-> StrVal(header[a]),
      value |-> IF a <= Len(cells) THEN StrVal(cells[a]) ELSE StrVal(<<>>)]]

PaddedRows(content) ==
  LET ls     == Split(content, NL)
      header == Split(ls[2], ",")
  IN  [r \in 1..(Len(ls) - 2) |-> PaddedRow(header, Split(ls[r + 2], ","))]

\* C11: a data row with fewer cells than the header is still emitted, with
\* every header column, each missing column mapped to the empty string; no
\* row is rejected for a column-count mismatch.
C11_ShortRowsPaddedWithEmptyString ==
  pc = "done" /\ outcome = "returned" /\ ShortRowTable(arg) => ret = PaddedRows(arg)

\* ---- C12 ----
sSeparator == <<" ", "-", " ">>

\* 0-based index of the first occurrence of p in s, Len(s) when there is none
FirstIndex(s, p) ==
  LET at == {k \in 0..Len(s) : StartsWith(SubSeq(s, k + 1, Len(s)), p)}
  IN  IF Contains(s, p) THEN CHOOSE k \in at : \A m \in at : k <= m ELSE Len(s)

\* length of a numeric prefix '<digits>. ' of the heading, 0 when it has none
NumericPrefix(heading) ==
  LET d == DigitRun(heading, 0)
  IN  IF d >= 1 /\ d + 2 <= Len(heading) /\ heading[d + 1] = "." /\ heading[d + 2] = " "
      THEN d + 2 ELSE 0

\* the heading text after the numeric prefix
Remainder(heading) == Slice(heading, NumericPrefix(heading), Len(heading))

\* the heading reads '<digits>. <name> - <tagline>', name and tagline without
\* surrounding whitespace, the name ending at the first ' - '
HasSeparatorForm(heading) ==
  LET rest == Remainder(heading)
      k    == FirstIndex(rest, sSeparator)
      name == Slice(rest, 0, k)
      tag  == Slice(rest, k + 3, Len(rest))
  IN  /\ NumericPrefix(heading) > 0
      /\ Contains(rest, sSeparator)
      /\ name # <<>> /\ Strip(name) = name
      /\ tag # <<>> /\ Strip(tag) = tag

NameOf(heading) == Slice(Remainder(heading), 0, FirstIndex(Remainder(heading), sSeparator))

TaglineOf(heading) ==
  Slice(Remainder(heading), FirstIndex(Remainder(heading), sSeparator) + 3,
        Len(Remainder(heading)))

\* C12: for a heading '<digits>. <name> - <tagline>' platform_name is <name>
\* and tagline is <tagline>; only ' - ' splits them, so a hyphen inside the
\* name does not end the name.
C12_NameAndTaglineSplitAtSeparator ==
  pc = "done" /\ outcome = "returned" /\ HasSeparatorForm(arg.heading) =>
    /\ ret.platform_name = NameOf(arg.heading)
    /\ ret.tagline = TaglineOf(arg.heading)

\* ---- C13 ----
\* C13: for a heading '<digits>. <rest>' without a separator (here: without
\* any hyphen), platform_name is <rest>, the heading text after the numeric
\* prefix, and tagline is the empty string.
C13_NoSeparatorNameIsRemainder ==
  pc = "done" /\ outcome = "returned" /\ NumericPrefix(arg.heading) > 0
    /\ ~Contains(arg.heading, <<"-">>) =>
      /\ ret.platform_name = Remainder(arg.heading)
      /\ ret.tagline = <<>>

\* ---- C14 ----
\* a non-bullet line ending with ':' (line 238)
TitleLine(line) ==
  EndsWith(Strip(line), <<":">>) /\ ~StartsWith(Strip(line), <<Bullet>>)

\* s without its last character
MinusLast(s) == SubSeq(s, 1, Len(s) - 1)

\* s without the run of colons it ends with
WithoutTrailingColons(s) ==
  LET cuts == {m \in 0..Len(s) : \A j \in (m + 1)..Len(s) : s[j] = ":"}
  IN  SubSeq(s, 1, CHOOSE m \in cuts : \A k \in cuts : m <= k)

\* the walk reads a title line
DisclaimerTitleStep ==
  /\ pc = "disclaimer_walk"
  /\ pc' = "disclaimer_walk"
  /\ frame'.n = frame.n + 1
  /\ TitleLine(At(frame.lines, frame.n))

\* the content is n >= 1 title lines, each followed by one content line
TitledPairs(content) ==
  LET ls == Split(content, NL)
  IN  /\ Len(ls) % 2 = 0
      /\ \A k \in 1..Len(ls) :
           IF k % 2 = 1 THEN TitleLine(ls[k])
           ELSE ~TitleLine(ls[k]) /\ Strip(ls[k]) # <<>>

GroupsOfPairs(content) ==
  LET ls == Split(content, NL)
  IN  [k \in 1..(Len(ls) \div 2) |->
         [title   |-> WithoutTrailingColons(Strip(ls[2 * k - 1])),
          content |-> <<Strip(ls[2 * k])>>]]

\* C14 as stated: every title line appends the open group to the output,
\* whatever it holds, and opens a group titled with the line minus its
\* trailing colon.
C14_Original ==
  [][DisclaimerTitleStep =>
       /\ frame'.st.sections = Append(frame.st.sections, frame.st.current_section)
       /\ frame'.st.current_section =
            [title   |-> MinusLast(Strip(At(frame.lines, frame.n))),
             content |-> <<>>]]_vars

\* C14 amended: every title line closes the open group, appending it to the
\* output first unless both its title and its content are empty (an empty
\* title alone does not keep it out), and opens a group titled with the line
\* minus all its trailing colons; n title lines each followed by one content
\* line yield exactly n groups with those titles and one content line each.
C14_TitleLineClosesOpenGroup ==
  /\ [][DisclaimerTitleStep =>
          /\ frame'.st.sections =
               IF frame.st.current_section.title = <<>>
                  /\ frame.st.current_section.content = <<>>
               THEN frame.st.sections
               ELSE Append(frame.st.sections, frame.st.current_section)
          /\ frame'.st.current_section =
               [title   |-> WithoutTrailingColons(Strip(At(frame.lines, frame.n))),
                content |-> <<>>]]_vars
  /\ [](pc = "done" /\ TitledPairs(arg) => ret.sections = GroupsOfPairs(arg))

\* two title lines, each followed by one content line, gave two groups; the
\* second title was written with two colons
C14_Witness ==
  /\ pc = "done"
  /\ arg = Join(<<dEligibility, dText, dRegion, dText>>, NL)
  /\ Len(ret.sections) = 2
  /\ ret.sections[1].title = MinusLast(dEligibility)
  /\ ret.sections[2].title = MinusLast(MinusLast(dRegion))
  /\ ret.sections[2].content = <<dText>>

\* ---- C15 ----
\* no line of the content is a 'Pros:' or 'Cons:' marker line
NoProsConsMarker(content) ==
  \A k \in 1..Len(Split(content, NL)) :
    /\ ~StartsWith(Strip(Split(content, NL)[k]), sPros)
    /\ ~StartsWith(Strip(Split(content, NL)[k]), sCons)

\* a line that moves the walk out of the intro state when no 'Pros:' or
\* 'Cons:' marker exists
LeavesIntro(line) ==
  \/ Contains(Strip(line), sCompatibility)
  \/ Contains(Strip(line), sCompliance)
  \/ StartsWith(Strip(line), sVerdictMarker)

\* the content has a non-blank line that is neither a bullet nor a marker
\* line, with no marker line before it
HasIntroLine(content) ==
  LET ls == Split(content, NL)
  IN  \E k \in 1..Len(ls) :
        /\ Strip(ls[k]) # <<>>
        /\ ~StartsWith(Strip(ls[k]), <<Bullet>>)
        /\ \A j \in 1..k : ~LeavesIntro(ls[j])

\* C15 as stated: content without 'Pros:' and 'Cons:' marker lines yields
\* empty pros and cons and a non-empty intro, and nothing is raised.
C15_Original ==
  pc = "done" /\ NoProsConsMarker(arg.content) =>
    /\ outcome = "returned"
    /\ ret.pros = <<>> /\ ret.cons = <<>>
    /\ ret.intro # <<>>

\* C15 amended: content without 'Pros:' and 'Cons:' marker lines yields empty
\* pros and cons, nothing is raised, and intro is non-empty exactly when the
\* content has a non-blank, non-bullet line before its first 'Compatibility:',
\* 'Compliance:' or 'Verdict:' marker line; otherwise intro is ''.
C15_NoMarkersEmptyLists ==
  NoProsConsMarker(arg.content) =>
    /\ outcome # "error"
    /\ pc = "done" =>
         /\ outcome = "returned"
         /\ ret.pros = <<>> /\ ret.cons = <<>>
         /\ (ret.intro # <<>>) <=> HasIntroLine(arg.content)

\* a review of a text line and a bullet, without markers: the text is the
\* intro, the bullet is in neither list
C15_Witness ==
  /\ pc = "done"
  /\ arg.content = Join(<<rText, rBullet>>, NL)
  /\ ret.intro = rText
  /\ ret.pros = <<>> /\ ret.cons = <<>>

\* ---- C16 ----
\* C16: no sub-parser ends in an error on any content.  Stated for the csv
\* table parser on the contents it is called with (they start with 'csv'):
\* it always returns its list of rows.
C16_CsvParserNeverRaises ==
  pc = "done" /\ StartsWith(arg, sCsv) => outcome = "returned"

\* ---- C17 ----
\* the lines the metadata scan has examined so far: up to the loop index
\* while it runs, up to and including the Content line (or all lines, when
\* there is none) afterwards
Header ==
  IF pc = "metadata" THEN Slice(lines, 0, i)
  ELSE IF current_line > 0 THEN Slice(lines, 0, current_line)
  ELSE lines

\* no examined line starts with the prefix
NoPrefixLine(prefix) == \A k \in 1..Len(Header) : ~StartsWith(Header[k], prefix)

\* C17: every metadata field whose prefix line is absent from the header
\* keeps its default ('' or the empty map), and _parse_metadata raises no
\* error, whatever fields are missing, also for a label on the last line.
C17_AbsentFieldsKeepDefault ==
  /\ outcome # "error"
  /\ NoPrefixLine(sTargetKeyword) => metadata.target_keyword = <<>>
  /\ NoPrefixLine(sTargetGeo) => metadata.target_geo = <<>>
  /\ (\A k \in 1..Len(Header) : Strip(Header[k]) # sUrlSlug) => metadata.url_slug = <<>>
  /\ NoPrefixLine(sMetaTitle) => metadata.meta_title = <<>>
  /\ NoPrefixLine(sMetaDescription) => metadata.meta_description = <<>>
  /\ NoPrefixLine(sNotesForMJ) => metadata.notes = <<>>
  /\ NoPrefixLine(sFeaturedImage) => metadata.featured_image = <<>>

\* parse returned for a header of a keyword line and, as last line of the
\* input, the Meta Title label: the keyword is set, every other field has
\* its default
C17_Witness ==
  /\ pc = "done"
  /\ outcome = "document"
  /\ lines = <<mKeyword, mTitle>>
  /\ metadata = [EmptyMetadata EXCEPT !.target_keyword = <<"k">>]

\* ---- C18 ----
\* C18: parsing the same input twice yields structurally equal Documents:
\* every Document parse() returns on one instance equals the first one, and
\* the cursor after each call is the same.
C18_SameInputSameDocument ==
  /\ \A a, b \in 1..Len(returned) : returned[a] = returned[b]
  /\ pc = "done" /\ returned # <<>> =>
       returned[Len(returned)] = [metadata |-> metadata, sections |-> sections]

\* parse() returned twice on an input with a Content line and a heading after
\* it, with the same non-empty list of sections
C18_Witness ==
  /\ Len(returned) = 2
  /\ returned[1] = returned[2]
  /\ returned[2].sections # <<>>
  /\ current_line > 0

\* ---- C19 ----
\* C19: parse terminates on every finite line sequence: every pass of the
\* metadata loop, of the outer segmenter loop and of the inner
\* content-collecting loop that stays in its loop moves the line index
\* forward, the index never passes the number of lines, and parse reaches
\* its end.
C19_ParseTerminates ==
  /\ [](i <= Len(lines))
  /\ [][pc = "metadata" /\ pc' = "metadata" => i' > i]_vars
  /\ [][pc = "sections" /\ pc' \in {"sections", "content"} => i' > i]_vars
  /\ [][pc = "content" /\ pc' = "content" => i' > i]_vars
  /\ <>(pc = "done")

\* parse ended at the last line after a notes lookahead ran to the end of the
\* input and the segmenter, with no Content line, emitted a section
C19_Witness ==
  /\ pc = "done"
  /\ i = Len(lines)
  /\ lines = <<mNotes, lPlain>>
  /\ metadata.notes = lPlain
  /\ Len(sections) = 1

\* ---- C20 ----
\* C20: two parser instances on two documents share no mutable state: under
\* any interleaving of their steps a step of one leaves the other as it is,
\* and each instance ends with the cursor and the Document it produces when
\* it runs alone.
C20_InstancesIndependent ==
  /\ [][Self' = Self \/ other' = other]_vars
  /\ [](pc = "done" => Self = RunAlone(NewParser(lines)))
  /\ [](other.pc = "done" => other = RunAlone(NewParser(other.lines)))

\* both instances ended, on different documents: the first without a Content
\* line (cursor 0, one section), the second with one (cursor 1)
C20_Witness ==
  /\ pc = "done" /\ other.pc = "done"
  /\ lines = <<lPlain, lText>>
  /\ other.lines = <<lContent, lPlain>>
  /\ current_line = 0 /\ other.current_line = 1
  /\ Len(sections) = 1 /\ Len(other.sections) = 1
  /\ sections[1].content # other.sections[1].content

\* ---- C21 ----
\* the state a line selects, "none" when it is no marker line; a line that
\* fits several markers selects the first in the order Pros, Cons,
\* Compatibility/Compliance, Verdict
MarkerOf(line) ==
  LET s == Strip(line)
  IN  IF StartsWith(s, sPros) THEN "pros"
      ELSE IF StartsWith(s, sCons) THEN "cons"
      ELSE IF Contains(s, sCompatibility) \/ Contains(s, sCompliance) THEN "details"
      ELSE IF StartsWith(s, sVerdictMarker) THEN "verdict"
      ELSE "none"

\* the state selected by the most recent marker line among the first n lines
StateAfter(ls, n) ==
  LET ks == {k \in 1..n : MarkerOf(ls[k]) # "none"}
  IN  IF ks = {} THEN "intro"
      ELSE MarkerOf(ls[CHOOSE k \in ks : \A m \in ks : m <= k])

\* C21: the walk's state starts at intro and, after any number of lines read,
\* is the state selected by the most recent marker line ('Pros:' at the start
\* selects pros, 'Cons:' at the start cons, 'Compatibility:' or 'Compliance:'
\* anywhere details, 'Verdict:' at the start verdict); lines that are no
\* marker leave it alone, and a repeated marker re-enters its state.
C21_StateIsLastMarker ==
  pc = "review_walk" =>
    /\ frame.st.current_section \in {"intro", "pros", "cons", "details", "verdict"}
    /\ frame.st.current_section = StateAfter(frame.lines, frame.n)

\* details was left for verdict and entered again by a second marker line,
\* with a line that is no marker read in between
C21_Witness ==
  /\ pc = "review_walk"
  /\ frame.lines = <<rCompat, rVerdict, rText, rCompat>>
  /\ frame.n = 4
  /\ frame.st.current_section = "details"

\* ---- C22 ----
\* a line that is no marker and starts, once trimmed, with the bullet glyph
BulletLine(line) ==
  MarkerOf(line) = "none" /\ StartsWith(Strip(line), <<Bullet>>)

\* a bullet line without its leading glyph, trimmed
ItemOf(line) == Strip(Tail(Strip(line)))

\* the items of the bullet lines among the first n lines that were read in
\* the given state, in order
RECURSIVE ItemsIn(_, _, _)
ItemsIn(ls, n, state) ==
  IF n = 0 THEN <<>>
  ELSE IF BulletLine(ls[n]) /\ StateAfter(ls, n) = state
  THEN Append(ItemsIn(ls, n - 1, state), ItemOf(ls[n]))
  ELSE ItemsIn(ls, n - 1, state)

\* the walk reads a line that C22 says is ignored: a bullet line outside the
\* pros and cons states, or a line that is neither bullet nor marker inside
\* them
ReviewIgnoredStep ==
  /\ pc = "review_walk"
  /\ pc' = "review_walk"
  /\ frame'.n = frame.n + 1
  /\ LET line == At(frame.lines, frame.n)
     IN  /\ MarkerOf(line) = "none"
         /\ IF BulletLine(line)
            THEN frame.st.current_section \in {"intro", "details", "verdict"}
            ELSE frame.st.current_section \in {"pros", "cons"}

\* C22: pros is exactly the ordered list of the bullet lines read in the pros
\* state, each without its leading bullet glyph and trimmed, and cons likewise
\* for the cons state; a bullet line read in the intro, details or verdict
\* state, and a line that is neither bullet nor marker read in the pros or
\* cons state, changes no field of the review.
C22_BulletsFillProsAndCons ==
  /\ [](pc = "review_walk" =>
          /\ frame.st.pros = ItemsIn(frame.lines, frame.n, "pros")
          /\ frame.st.cons = ItemsIn(frame.lines, frame.n, "cons"))
  /\ [][ReviewIgnoredStep => frame'.st = frame.st]_vars

\* ---- C23 ----
\* a line that is neither marker nor bullet and holds a colon
DetailLine(line) ==
  /\ MarkerOf(line) = "none"
  /\ ~StartsWith(Strip(line), <<Bullet>>)
  /\ Contains(Strip(line), <<":">>)

\* the text before the first colon, trimmed, and the text after it, trimmed
KeyOf(line) ==
  Strip(Slice(Strip(line), 0, FirstIndex(Strip(line), <<":">>)))

ValueOf(line) ==
  Strip(Slice(Strip(line), FirstIndex(Strip(line), <<":">>) + 1, Len(Strip(line))))

\* the lines among the first n that were read in details state and hold a
\* key and a value
DetailWrites(ls, n) ==
  {k \in 1..n : DetailLine(ls[k]) /\ StateAfter(ls, k) = "details"}

\* the walk reads, in details state, a line that is neither marker nor bullet
\* and holds no colon
ReviewNoColonStep ==
  /\ pc = "review_walk"
  /\ pc' = "review_walk"
  /\ frame'.n = frame.n + 1
  /\ frame.st.current_section = "details"
  /\ LET line == At(frame.lines, frame.n)
     IN  /\ MarkerOf(line) = "none"
         /\ ~StartsWith(Strip(line), <<Bullet>>)
         /\ ~Contains(Strip(line), <<":">>)

\* C23: details maps exactly the keys of the lines read in details state that
\* are neither marker nor bullet and hold a colon, each key (the trimmed text
\* before the first colon) once, to the value (the trimmed text after the
\* first colon) of the last such line with that key, also when details was
\* left and entered again in between; a line without a colon read in details
\* state changes nothing.
C23_DetailsHoldLastValuePerKey ==
  /\ [](pc = "review_walk" =>
          LET d  == frame.st.details
              ws == DetailWrites(frame.lines, frame.n)
          IN  /\ \A a, b \in 1..Len(d) : d[a].key = d[b].key => a = b
              /\ {d[a].key : a \in 1..Len(d)} = {KeyOf(frame.lines[k]) : k \in ws}
              /\ \A a \in 1..Len(d) :
                   LET same == {k \in ws : KeyOf(frame.lines[k]) = d[a].key}
                   IN  d[a].value =
                         ValueOf(frame.lines[CHOOSE k \in same : \A m \in same : m <= k]))
  /\ [](pc = "done" /\ outcome = "returned" => ret.details = frame.st.details)
  /\ [][ReviewNoColonStep => frame'.st = frame.st]_vars

\* key k was written in details state, a second marker line entered details
\* again, and k was written a second time: the mapping returned holds the
\* second value
C23_Witness ==
  /\ pc = "done"
  /\ arg.content = Join(<<rCompat, rKey, rCompat, wKeyAgain>>, NL)
  /\ ret.details = <<[key |-> <<"k">>, value |-> <<"w">>]>>

\* ---- C24 ----
\* a non-empty line that is neither marker nor bullet
TextLine(line) ==
  /\ MarkerOf(line) = "none"
  /\ ~StartsWith(Strip(line), <<Bullet>>)
  /\ Strip(line) # <<>>

\* the text lines among the first n lines that were read in the given state,
\* trimmed, in order
RECURSIVE TextLinesIn(_, _, _)
TextLinesIn(ls, n, state) ==
  IF n = 0 THEN <<>>
  ELSE IF TextLine(ls[n]) /\ StateAfter(ls, n) = state
  THEN Append(TextLinesIn(ls, n - 1, state), Strip(ls[n]))
  ELSE TextLinesIn(ls, n - 1, state)

ReviewMarkerStep ==
  /\ pc = "review_walk"
  /\ pc' = "review_walk"
  /\ frame'.n = frame.n + 1
  /\ MarkerOf(At(frame.lines, frame.n)) # "none"

\* C29: a marker line only changes the state: intro lines, pros, cons, details
\* and verdict are after it what they were before it, so the text after
\* 'Verdict:' is not part of verdict, the text after 'Pros:' or 'Cons:' is in
\* neither list, and the key and value of a 'Compatibility: ...' or
\* 'Compliance: ...' line are not inserted into details.
C29_MarkerLineOnlyChangesState ==
  [][ReviewMarkerStep =>
       frame'.st = [frame.st EXCEPT
                      !.current_section = MarkerOf(At(frame.lines, frame.n))]]_vars

\* four marker lines, each with text after its marker, gave an empty review
C29_Witness ==
  /\ pc = "done"
  /\ arg.content = Join(<<wPros, rCons, rCompat, rVerdict>>, NL)
  /\ ret.intro = <<>> /\ ret.pros = <<>> /\ ret.cons = <<>>
  /\ ret.details = <<>> /\ ret.verdict = <<>>

\* ---- C25 ----
\* the non-empty lines among ls[a..b], trimmed, in order
RECURSIVE NonEmptyBetween(_, _, _)
NonEmptyBetween(ls, a, b) ==
  IF b < a THEN <<>>
  ELSE IF Strip(ls[b]) # <<>>
  THEN Append(NonEmptyBetween(ls, a, b - 1), Strip(ls[b]))
  ELSE NonEmptyBetween(ls, a, b - 1)

TitleIndices(ls) == {k \in 1..Len(ls) : TitleLine(ls[k])}

\* index of the first title line, Len(ls) + 1 when there is none
FirstTitle(ls) ==
  IF TitleIndices(ls) = {} THEN Len(ls) + 1
  ELSE CHOOSE k \in TitleIndices(ls) : \A m \in TitleIndices(ls) : k <= m

\* index of the last title line, 0 when there is none
LastTitle(ls) ==
  IF TitleIndices(ls) = {} THEN 0
  ELSE CHOOSE k \in TitleIndices(ls) : \A m \in TitleIndices(ls) : m <= k

\* the non-empty lines before the first title line are, in order, the content
\* of a first group with empty title
LeadingLinesInFirstGroup ==
  LET ls   == frame.lines
      lead == NonEmptyBetween(ls, 1, FirstTitle(ls) - 1)
  IN  lead # <<>> =>
        /\ Len(ret.sections) >= 1
        /\ ret.sections[1] = [title |-> <<>>, content |-> lead]

\* the non-empty lines after the last title line are, in order, the content
\* of the last group
TrailingLinesInLastGroup ==
  LET ls    == frame.lines
      trail == NonEmptyBetween(ls, LastTitle(ls) + 1, Len(ls))
  IN  trail # <<>> =>
        /\ Len(ret.sections) >= 1
        /\ ret.sections[Len(ret.sections)].content = trail

\* C25 as stated: the lines before the first title line form a first group
\* with empty title, and the group open when the content ends is appended to
\* the output.
C25_Original ==
  pc = "done" =>
    /\ LeadingLinesInFirstGroup
    /\ ret.sections = Append(frame.st.sections, frame.st.current_section)

\* C25 amended: the non-empty lines before the first title line form, in
\* order, a first group with empty title; the group open when the content
\* ends is appended to the output, with no title line after it, unless both
\* its title and its content are empty; the lines after the last title line
\* are the content of the last group and are never lost.
C25_OpenGroupAppendedAtEnd ==
  pc = "done" =>
    /\ LeadingLinesInFirstGroup
    /\ ret.sections =
         IF frame.st.current_section.title = <<>>
            /\ frame.st.current_section.content = <<>>
         THEN frame.st.sections
         ELSE Append(frame.st.sections, frame.st.current_section)
    /\ TrailingLinesInLastGroup

\* a line before the only title line and a line after it: two groups, the
\* first without title, the second closed by the end of the content
C25_Witness ==
  /\ pc = "done"
  /\ arg = Join(<<dText, dEligibility, dText>>, NL)
  /\ ret.sections = <<[title |-> <<>>, content |-> <<dText>>],
                      [title |-> MinusLast(dEligibility), content |-> <<dText>>]>>

\* ---- C30 ----
\* index of the first title line after line t, Len(ls) + 1 when there is none
NextTitle(ls, t) ==
  LET later == {k \in TitleIndices(ls) : k > t}
  IN  IF later = {} THEN Len(ls) + 1
      ELSE CHOOSE k \in later : \A m \in later : k <= m

\* the group opened by title line t (t = 0: the group open before any title
\* line) with the non-empty lines up to the next title line
GroupOpenedAt(ls, t) ==
  [title   |-> IF t = 0 THEN <<>> ELSE WithoutTrailingColons(Strip(ls[t])),
   content |-> NonEmptyBetween(ls, t + 1, NextTitle(ls, t) - 1)]

\* the groups opened at t and after it, those without title and content left
\* out
RECURSIVE GroupsFrom(_, _)
GroupsFrom(ls, t) ==
  LET g    == GroupOpenedAt(ls, t)
      rest == IF NextTitle(ls, t) > Len(ls) THEN <<>>
              ELSE GroupsFrom(ls, NextTitle(ls, t))
  IN  IF g.title = <<>> /\ g.content = <<>> THEN rest ELSE <<g>> \o rest

\* every line that is neither empty nor a title line is, once and in source
\* order, in the group opened by the nearest title line before it
LinesGroupedByNearestTitle ==
  pc = "done" => ret.sections = GroupsFrom(frame.lines, 0)

NoEmptyGroupEmitted ==
  pc = "done" =>
    \A k \in 1..Len(ret.sections) :
      ret.sections[k].title # <<>> \/ ret.sections[k].content # <<>>

\* C30: each non-empty line that is no title line appears exactly once in the
\* emitted groups, in source order and in the group opened by the nearest
\* title line before it; no emitted group has an empty title and an empty
\* content list; a group with empty title is the first group of the output.
C30_GroupsPartitionTheLines ==
  /\ LinesGroupedByNearestTitle
  /\ NoEmptyGroupEmitted
  /\ pc = "done" =>
       \A k \in 1..Len(ret.sections) : ret.sections[k].title = <<>> => k = 1

\* ---- C26 ----
\* a line that carries the prefix of a metadata field
FieldLine(line) ==
  \/ StartsWith(line, sTargetKeyword)
  \/ StartsWith(line, sTargetGeo)
  \/ Strip(line) = sUrlSlug
  \/ StartsWith(line, sMetaTitle)
  \/ StartsWith(line, sMetaDescription)
  \/ StartsWith(line, sNotesForMJ)
  \/ StartsWith(line, sFeaturedImage)

\* the value stored under key k of the featured image, '' when there is none
ImageValue(k) ==
  IF HasKey(metadata.featured_image, k)
  THEN (CHOOSE e \in {metadata.featured_image[n] : n \in 1..Len(metadata.featured_image)} :
          e.key = k).value
  ELSE <<>>

\* C26: the lookahead of 'Notes for MJ:' and 'Featured image:' is bounded:
\* notes holds at most the 10 lines after its label and no line that carries
\* the prefix of a field, and the description of the featured image is no
\* field line and no 'SEO Title:' or 'ALT Tag:' line.
C26_LookaheadBounded ==
  /\ Len(Split(metadata.notes, NL)) <= ImgWindow
  /\ \A k \in 1..Len(Split(metadata.notes, NL)) : ~FieldLine(Split(metadata.notes, NL)[k])
  /\ ~FieldLine(ImageValue("description"))
  /\ ~StartsWith(ImageValue("description"), sSeoTitle)
  /\ ~StartsWith(ImageValue("description"), sAltTag)

\* ---- C27 ----
\* the first non-empty line after line n (0-based), trimmed; '' when every
\* line after it is empty
FirstNonEmptyAfter(ls, n) ==
  LET later == {j \in (n + 1)..(Len(ls) - 1) : Strip(At(ls, j)) # <<>>}
  IN  IF later = {} THEN <<>>
      ELSE Strip(At(ls, CHOOSE j \in later : \A m \in later : j <= m))

\* the metadata scan passes over line i
MetadataScanStep ==
  /\ pc = "metadata"
  /\ pc' = "metadata"
  /\ i' = i + 1

\* C27: a next-line field (URL Slug, Meta Title, Meta Description) takes the
\* first non-empty line after its label line: blank lines between the label
\* and the value are skipped and give no empty value.
C27_NextLineFieldSkipsBlankLines ==
  [][MetadataScanStep =>
       LET line == At(lines, i)
       IN  /\ Strip(line) = sUrlSlug =>
                metadata'.url_slug = FirstNonEmptyAfter(lines, i)
           /\ StartsWith(line, sMetaTitle) =>
                metadata'.meta_title = FirstNonEmptyAfter(lines, i)
           /\ StartsWith(line, sMetaDescription) =>
                metadata'.meta_description = FirstNonEmptyAfter(lines, i)]_vars

\* ---- C28 ----
IsKeywordLine(line) == StartsWith(line, sTargetKeyword)
IsGeoLine(line) == StartsWith(line, sTargetGeo)
IsSlugLine(line) == Strip(line) = sUrlSlug
IsTitleLine(line) == StartsWith(line, sMetaTitle)
IsDescriptionLine(line) == StartsWith(line, sMetaDescription)
IsNotesLine(line) == StartsWith(line, sNotesForMJ)
IsImageLine(line) == StartsWith(line, sFeaturedImage)

\* the lines the main scan has examined (0-based) that pass the test
Examined(Test(_)) == {k \in 0..(i - 1) : Test(At(lines, k))}

\* the largest element of a non-empty set of indices
LastOf(S) == CHOOSE k \in S : \A m \in S : m <= k

\* what line k holds after the prefix, trimmed
AfterPrefix(k, prefix) == Strip(Slice(At(lines, k), Len(prefix), Len(At(lines, k))))

\* the line after line k, trimmed; '' when k is the last line
NextOf(k) == IF k + 1 < Len(lines) THEN Strip(At(lines, k + 1)) ELSE <<>>

\* the lines after line k up to the first one starting with 'Content',
\* joined and trimmed
NotesOf(k) ==
  LET stops == {j \in (k + 1)..(Len(lines) - 1) : StartsWith(At(lines, j), sContent)}
      stop  == IF stops = {} THEN Len(lines)
               ELSE CHOOSE j \in stops : \A m \in stops : j <= m
  IN  Strip(Join(Slice(lines, k + 1, stop), NL))

\* line k is followed by a description line: a non-blank line that does not
\* start with 'SEO Title:'
HasDescription(k) ==
  /\ k + 1 < Len(lines)
  /\ Strip(At(lines, k + 1)) # <<>>
  /\ ~StartsWith(At(lines, k + 1), sSeoTitle)

FollowedByLine(k) == k + 1 < Len(lines)

\* the five fields every occurrence of whose prefix assigns: the last
\* occurrence examined gives the value
LastOccurrenceAssigns ==
  /\ Examined(IsKeywordLine) # {} =>
       metadata.target_keyword = AfterPrefix(LastOf(Examined(IsKeywordLine)), sTargetKeyword)
  /\ Examined(IsGeoLine) # {} =>
       metadata.target_geo = AfterPrefix(LastOf(Examined(IsGeoLine)), sTargetGeo)
  /\ Examined(IsTitleLine) # {} =>
       metadata.meta_title = NextOf(LastOf(Examined(IsTitleLine)))
  /\ Examined(IsDescriptionLine) # {} =>
       metadata.meta_description = NextOf(LastOf(Examined(IsDescriptionLine)))
  /\ Examined(IsNotesLine) # {} =>
       metadata.notes = NotesOf(LastOf(Examined(IsNotesLine)))

\* C28 as stated: every line the main scan examines before the 'Content'
\* line sets the field whose prefix it carries, lines captured by a
\* lookahead included, and for every field the last occurrence of its prefix
\* gives the value.
C28_Original ==
  pc = "metadata" =>
    /\ LastOccurrenceAssigns
    /\ Examined(IsSlugLine) # {} =>
         metadata.url_slug = NextOf(LastOf(Examined(IsSlugLine)))
    /\ Examined(IsImageLine) # {} =>
         metadata.featured_image =
           MetadataLine(EmptyMetadata, lines, LastOf(Examined(IsImageLine))).featured_image

\* C28 amended: the lookaheads do not advance the main scan, so every line
\* before the 'Content' line sets the field whose prefix it carries, lines
\* captured into notes or the featured image included; for target_keyword,
\* target_geo, meta_title, meta_description and notes the last occurrence of
\* the prefix gives the value; a 'URL Slug:' label on the last line of the
\* input and a 'Featured image:' label not followed by a description line
\* change nothing, so url_slug comes from the last label that has a line
\* after it and the description from the last label followed by one.
C28_LookaheadsLeaveScanAlone ==
  pc = "metadata" =>
    /\ LastOccurrenceAssigns
    /\ LET slugs == {k \in Examined(IsSlugLine) : FollowedByLine(k)}
       IN  metadata.url_slug = IF slugs = {} THEN <<>> ELSE NextOf(LastOf(slugs))
    /\ LET images == {k \in Examined(IsImageLine) : HasDescription(k)}
       IN  IF images = {}
           THEN metadata.featured_image = <<>>
           ELSE /\ HasKey(metadata.featured_image, "description")
                /\ ImageValue("description") = NextOf(LastOf(images))

\* a 'Target Geo:' line inside the notes block: notes has captured it and
\* the main scan has set target_geo from it, replacing the value of the
\* earlier 'Target Geo:' line
C28_Witness ==
  /\ pc = "metadata"
  /\ lines = <<mGeo, mNotes, mGeoAgain>>
  /\ i = 3
  /\ metadata.notes = mGeoAgain
  /\ metadata.target_geo = <<"h">>

=============================================================================
